---- MODULE Spec2Model ----
(***************************************************************************)
(* A model of the core of the 3D point cloud viewer: the fixed-block       *)
(* MemoryPool (src/src/core/MemoryPool.h), the PointCloud bounds           *)
(* (src/unnamed/part_001) and the Octree build and queries                 *)
(* (src/src/core/Octree.cpp).                                              *)
(*                                                                         *)
(* The specifications share one set of variables:                          *)
(*   Spec         the pool driven call by call (each call is atomic, as    *)
(*                the pool mutex makes it for its callers);                *)
(*   SpecThreads  the pool driven by the threads of the ThreadSafety test, *)
(*                statement by statement, with the mutex modelled;         *)
(*                SpecThreadsFair adds a fair scheduler;                   *)
(*   SpecOctree   a cloud filled by addPoint, the tree built over it one   *)
(*                insertPoint at a time, and queries run on the result;    *)
(*   SpecRebuild  the same with queries before the first build() too and   *)
(*                with build() called again;                               *)
(*   SpecBuild    the loader and build() alone; SpecBuildFair adds that    *)
(*                build()'s loop keeps running;                            *)
(*   SpecReaders  threads calling the queries and the statistics of a      *)
(*                built Octree at the same time;                           *)
(*   SpecHistory  build() calls on one Octree with the cloud cleared in    *)
(*                between, and LOD queries;                                *)
(*   SpecCloud    the public operations of a PointCloud called one after   *)
(*                the other on a cloud that starts empty.                  *)
(***************************************************************************)
EXTENDS Integers, Sequences, FiniteSets, TLC

(***************************************************************************)
(* Bounds of the model.                                                    *)
(***************************************************************************)
\* Largest block size a pool is constructed with.
MaxBlockSize == 2
\* Number of pool calls one behaviour of Spec makes.
MaxOps == 6
\* Largest block size of the pool the threads share.
MaxSharedBlockSize == 4
\* reset() calls the threads make between them.
MaxResets == 1

(***************************************************************************)
(* Variables.                                                              *)
(***************************************************************************)
VARIABLES
    \* MemoryPool<T> fields
    block_size_,       \* size_t block_size_
    blocks_,           \* vector<unique_ptr<Block>>: sequence of [used |-> n]
    free_list_,        \* vector<T*>: the elements between begin() and end()
    free_under,        \* how many elements end() lies BELOW begin() (0 unless
                       \* pop_back() ran on the empty vector)
    allocated_count_,  \* size_t allocated_count_
    crashed,           \* the process was terminated by a fault
    \* the callers of Spec
    held,              \* pointers returned by allocate() and not yet given back
    log,               \* the calls made so far, oldest first
    \* the threads of SpecThreads
    mutex_,            \* std::mutex mutex_: 0 when free, else the owning thread
    pc,                \* where each thread is
    t_ptr,             \* each thread's local `ptr` of the call it is in
    t_tmp,             \* each thread's register during allocated_count_++ / --
    thread_objects,    \* thread_objects[t] of the ThreadSafety test
    n_dealloc,         \* the index i of each thread's deallocation loop
    resets,            \* reset() calls made so far
    \* PointCloud fields
    points_,           \* vector<Point>: the positions, in order
    min_bound_,        \* glm::vec3 min_bound_
    max_bound_,        \* glm::vec3 max_bound_
    pending,           \* the points the loader has still to append
    c_ops,             \* the calls the cloud's owner has made so far
    access,            \* the outcome of the owner's last at(idx)
    \* Octree fields
    root_,             \* unique_ptr<OctreeNode>: Null or the root node
    nodes,             \* the OctreeNode objects, by node
    o_pc,              \* where the octree's user is
    o_i,               \* the index i of build()'s loop
    query,             \* the query being answered
    results,           \* the vector a query returns
    built,             \* the trees the build() calls so far have left, oldest first
    \* The threads that read a built Octree
    r_pc,              \* where each reader is in its call
    r_query,           \* the call each reader is making
    r_results,         \* each reader's local results (or counters)
    r_i                \* the index i of each reader's loop over the children

poolVars == <<block_size_, blocks_, free_list_, free_under, allocated_count_, crashed>>
callerVars == <<held, log>>
threadVars == <<mutex_, pc, t_ptr, t_tmp, thread_objects, n_dealloc, resets>>
cloudVars == <<points_, min_bound_, max_bound_, pending>>
ownerVars == <<c_ops, access>>
octreeVars == <<root_, nodes, o_pc, o_i, query, results, built>>
readerVars == <<r_pc, r_query, r_results, r_i>>
vars == <<poolVars, callerVars, threadVars, cloudVars, ownerVars, octreeVars, readerVars>>

\* What the calls of Spec leave alone.
notCaller == <<threadVars, cloudVars, ownerVars, octreeVars, readerVars>>
\* What the threads of SpecThreads leave alone.
notThread == <<callerVars, cloudVars, ownerVars, octreeVars, readerVars>>
\* What the steps of SpecOctree leave alone.
notOctree == <<poolVars, callerVars, threadVars, ownerVars, readerVars>>
\* What the readers of SpecReaders leave alone.
notReader == <<poolVars, callerVars, threadVars, cloudVars, ownerVars, octreeVars>>

(***************************************************************************)
(* Addresses.  A slot address is <<b, s>>: slot s of the b-th block of     *)
(* blocks_.  NULL is the null pointer and WILD a pointer into no block.    *)
(***************************************************************************)
NULL == <<0, 0>>
WILD == <<0, 1>>

Last(s) == s[Len(s)]
Front(s) == SubSeq(s, 1, Len(s) - 1)
Range(s) == {s[i] : i \in DOMAIN s}

\* Block(size): a fresh block, nothing used.
Block == [used |-> 0]

\* The slots of the blocks the pool owns.
SlotAddrs == {<<b, s>> : b \in 1..Len(blocks_), s \in 0..(block_size_ - 1)}

\* What a read outside the free list's buffer can yield: any pointer value.
GarbagePtrs == {NULL, WILD} \cup SlotAddrs

\* getCapacity()
getCapacity == Len(blocks_) * block_size_

\* sizeof(T) for the tests' TestObject: an int and ten floats.
sizeof_T == 44

\* getMemoryUsage()
getMemoryUsage == Len(blocks_) * block_size_ * sizeof_T

\* getAllocatedCount()
getAllocatedCount == allocated_count_

\* free_list_.empty(): begin() == end()
FreeListEmpty == Len(free_list_) = 0 /\ free_under = 0

\* allocateNewBlock()
allocateNewBlock(bs) == Append(bs, Block)

(***************************************************************************)
(* Spec: the pool, one whole call per step.                                *)
(*                                                                         *)
(* free_list_.back() and pop_back() on an empty vector, and push_back()    *)
(* while end() lies below begin(), are undefined behaviour: the access is  *)
(* outside the vector's buffer.  The build either faults there (the        *)
(* process is terminated) or carries on with whatever the memory held.     *)
(***************************************************************************)
Entry(op, p, r) == [op |-> op, ptr |-> p, returned |-> r]

\* Remove the first occurrence of p from s (the caller gives one copy back).
RECURSIVE RemoveOne(_, _)
RemoveOne(s, p) ==
    IF s = <<>> THEN <<>>
    ELSE IF Head(s) = p THEN Tail(s)
    ELSE <<Head(s)>> \o RemoveOne(Tail(s), p)

\* allocate(), lines 66-72: the free list is empty and the active block has room.
AllocateBump ==
    /\ FreeListEmpty
    /\ Last(blocks_).used < block_size_
    /\ LET ptr == <<Len(blocks_), Last(blocks_).used>> IN
        /\ blocks_' = [blocks_ EXCEPT ![Len(blocks_)].used = @ + 1]
        /\ allocated_count_' = allocated_count_ + 1
        /\ held' = Append(held, ptr)
        /\ log' = Append(log, Entry("allocate", ptr, TRUE))
    /\ UNCHANGED <<block_size_, free_list_, free_under, crashed>>

\* allocate(), lines 79-83 with a non-empty free list.
AllocateReuse ==
    /\ Len(free_list_) > 0
    /\ LET ptr == Last(free_list_) IN
        /\ free_list_' = Front(free_list_)
        /\ allocated_count_' = allocated_count_ + 1
        /\ held' = Append(held, ptr)
        /\ log' = Append(log, Entry("allocate", ptr, TRUE))
    /\ UNCHANGED <<block_size_, blocks_, free_under, crashed>>

\* What lines 80-83 do when nothing lies between begin() and end(): back()
\* reads outside the buffer and pop_back() moves end() one further down.
\* bs is blocks_ as the call has left it.
PopOutOfBounds(bs) ==
    /\ blocks_' = bs
    /\ \/ /\ crashed' = TRUE
          /\ log' = Append(log, Entry("allocate", NULL, FALSE))
          /\ UNCHANGED <<free_list_, free_under, allocated_count_, held>>
       \/ \E g \in {NULL, WILD} \cup
                   {<<b, s>> : b \in 1..Len(bs), s \in 0..(block_size_ - 1)} :
            /\ free_under' = free_under + 1
            /\ allocated_count_' = allocated_count_ + 1
            /\ held' = Append(held, g)
            /\ log' = Append(log, Entry("allocate", g, TRUE))
            /\ UNCHANGED <<free_list_, crashed>>
    /\ UNCHANGED block_size_

\* allocate(), lines 66-68 and 73-83: the free list is empty and the active
\* block is full.  allocateNewBlock() runs, and control then falls through
\* to the free-list pop with the free list still empty.
AllocateGrow ==
    /\ FreeListEmpty
    /\ ~(Last(blocks_).used < block_size_)
    /\ PopOutOfBounds(allocateNewBlock(blocks_))

\* allocate() entered while end() lies below begin(): empty() is false, so
\* lines 80-83 run at once.
AllocateUnder ==
    /\ free_under > 0
    /\ PopOutOfBounds(blocks_)

\* T* allocate()
Allocate ==
    /\ ~crashed
    /\ Len(log) < MaxOps
    /\ \/ AllocateBump
       \/ AllocateReuse
       \/ AllocateGrow
       \/ AllocateUnder
    /\ UNCHANGED notCaller

\* deallocate(nullptr): line 88, returns before taking the lock.
DeallocateNull ==
    /\ ~crashed
    /\ Len(log) < MaxOps
    /\ held' = RemoveOne(held, NULL)
    /\ log' = Append(log, Entry("deallocate", NULL, TRUE))
    /\ UNCHANGED <<poolVars, notCaller>>

\* deallocate(ptr) for a non-null pointer the caller holds, lines 90-97.
\* T has a trivial destructor, so ptr->~T() changes nothing.
Deallocate(ptr) ==
    /\ ~crashed
    /\ Len(log) < MaxOps
    /\ ptr # NULL
    /\ UNCHANGED notCaller
    /\ \/ /\ free_under = 0
          /\ free_list_' = Append(free_list_, ptr)
          /\ allocated_count_' = allocated_count_ - 1
          /\ held' = RemoveOne(held, ptr)
          /\ log' = Append(log, Entry("deallocate", ptr, TRUE))
          /\ UNCHANGED <<block_size_, blocks_, free_under, crashed>>
       \/ \* push_back() stores at end(), below the buffer, and moves end() up
          /\ free_under > 0
          /\ \/ /\ crashed' = TRUE
                /\ log' = Append(log, Entry("deallocate", ptr, FALSE))
                /\ UNCHANGED <<block_size_, blocks_, free_list_, free_under,
                               allocated_count_, held>>
             \/ /\ free_under' = free_under - 1
                /\ allocated_count_' = allocated_count_ - 1
                /\ held' = RemoveOne(held, ptr)
                /\ log' = Append(log, Entry("deallocate", ptr, TRUE))
                /\ UNCHANGED <<block_size_, blocks_, free_list_, crashed>>

\* reset() without free_list_.clear().
ResetKeepFreeList ==
    /\ ~crashed
    /\ Len(log) < MaxOps
    /\ blocks_' = allocateNewBlock(<<>>)
    /\ allocated_count_' = 0
    /\ held' = <<>>
    /\ log' = Append(log, Entry("reset", NULL, TRUE))
    /\ UNCHANGED <<block_size_, free_list_, free_under, crashed, notCaller>>

\* reset(), lines 101-111.  clear() sets end() to begin(), wherever end() was.
\* Every address issued before is invalid afterwards; the callers drop them.
Reset ==
    /\ ~crashed
    /\ Len(log) < MaxOps
    /\ blocks_' = allocateNewBlock(<<>>)
    /\ free_list_' = <<>>
    /\ free_under' = 0
    /\ allocated_count_' = 0
    /\ held' = <<>>
    /\ log' = Append(log, Entry("reset", NULL, TRUE))
    /\ UNCHANGED <<block_size_, crashed, notCaller>>

(***************************************************************************)
(* SpecThreads: the threads of TEST(MemoryPoolTest, ThreadSafety), one     *)
(* statement of the pool's code per step.  Each thread allocates           *)
(* allocations_per_thread objects, then deallocates the first half of      *)
(* them; besides, a thread between two calls may call reset().             *)
(***************************************************************************)
\* num_threads
num_threads == 2
\* allocations_per_thread
allocations_per_thread == 2

Threads == 1..num_threads

\* A lock that never waits.
LockFreeNoWait == TRUE

\* std::lock_guard<std::mutex> lock(mutex_): the thread waits until the
\* mutex is free.
LockFree == mutex_ = 0

\* The constructor of the lock_guard at the head of a call.
T_Lock(t, from, to) ==
    /\ ~crashed
    /\ pc[t] = from
    /\ LockFree
    /\ mutex_' = t
    /\ pc' = [pc EXCEPT ![t] = to]
    /\ UNCHANGED <<poolVars, t_ptr, t_tmp, thread_objects, n_dealloc, resets, notThread>>

\* The loop of line 109: the next pool.allocate().
T_CallAllocate(t) ==
    /\ ~crashed
    /\ pc[t] = "idle"
    /\ Len(thread_objects[t]) < allocations_per_thread
    /\ pc' = [pc EXCEPT ![t] = "a_lock"]
    /\ UNCHANGED <<poolVars, mutex_, t_ptr, t_tmp, thread_objects, n_dealloc, resets, notThread>>

\* allocate(), line 64
T_AllocLock(t) == T_Lock(t, "a_lock", "a_test")

\* allocate(), lines 66-69 and 73-76: the tests, and allocateNewBlock()
T_AllocTest(t) ==
    /\ ~crashed
    /\ pc[t] = "a_test"
    /\ IF FreeListEmpty
       THEN IF blocks_ = <<>>
            THEN \* blocks_.back() on an empty vector
                 /\ crashed' = TRUE
                 /\ UNCHANGED <<blocks_, pc>>
            ELSE IF Last(blocks_).used < block_size_
            THEN /\ pc' = [pc EXCEPT ![t] = "a_bump"]
                 /\ UNCHANGED <<blocks_, crashed>>
            ELSE /\ blocks_' = allocateNewBlock(blocks_)
                 /\ pc' = [pc EXCEPT ![t] = "a_pop"]
                 /\ UNCHANGED crashed
       ELSE /\ pc' = [pc EXCEPT ![t] = "a_pop"]
            /\ UNCHANGED <<blocks_, crashed>>
    /\ UNCHANGED <<block_size_, free_list_, free_under, allocated_count_,
                   mutex_, t_ptr, t_tmp, thread_objects, n_dealloc, resets, notThread>>

\* allocate(), line 70: T* ptr = &current_block->memory[current_block->used++]
T_AllocBump(t) ==
    /\ ~crashed
    /\ pc[t] = "a_bump"
    /\ IF blocks_ = <<>>
       THEN \* current_block dangles
            /\ crashed' = TRUE
            /\ UNCHANGED <<blocks_, t_ptr, pc>>
       ELSE /\ t_ptr' = [t_ptr EXCEPT ![t] = <<Len(blocks_), Last(blocks_).used>>]
            /\ blocks_' = [blocks_ EXCEPT ![Len(blocks_)].used = @ + 1]
            /\ pc' = [pc EXCEPT ![t] = "a_inc"]
            /\ UNCHANGED crashed
    /\ UNCHANGED <<block_size_, free_list_, free_under, allocated_count_,
                   mutex_, t_tmp, thread_objects, n_dealloc, resets, notThread>>

\* allocate(), lines 80-81: T* ptr = free_list_.back(); free_list_.pop_back()
T_AllocPop(t) ==
    /\ ~crashed
    /\ pc[t] = "a_pop"
    /\ IF Len(free_list_) > 0
       THEN /\ t_ptr' = [t_ptr EXCEPT ![t] = Last(free_list_)]
            /\ free_list_' = Front(free_list_)
            /\ pc' = [pc EXCEPT ![t] = "a_inc"]
            /\ UNCHANGED <<free_under, crashed>>
       ELSE \* outside the buffer: a fault, or whatever the memory holds
            \/ /\ crashed' = TRUE
               /\ UNCHANGED <<free_list_, free_under, t_ptr, pc>>
            \/ \E g \in GarbagePtrs :
                 /\ t_ptr' = [t_ptr EXCEPT ![t] = g]
                 /\ free_under' = free_under + 1
                 /\ pc' = [pc EXCEPT ![t] = "a_inc"]
                 /\ UNCHANGED <<free_list_, crashed>>
    /\ UNCHANGED <<block_size_, blocks_, allocated_count_,
                   mutex_, t_tmp, thread_objects, n_dealloc, resets, notThread>>

\* allocated_count_++ (lines 71, 82) and allocated_count_-- (line 97): the load
T_CountLoad(t, from, to) ==
    /\ ~crashed
    /\ pc[t] = from
    /\ t_tmp' = [t_tmp EXCEPT ![t] = allocated_count_]
    /\ pc' = [pc EXCEPT ![t] = to]
    /\ UNCHANGED <<poolVars, mutex_, t_ptr, thread_objects, n_dealloc, resets, notThread>>

\* allocated_count_++ and allocated_count_--: the store of the value loaded
\* plus d.
T_CountStore(t, from, to, d) ==
    /\ ~crashed
    /\ pc[t] = from
    /\ allocated_count_' = t_tmp[t] + d
    /\ pc' = [pc EXCEPT ![t] = to]
    /\ UNCHANGED <<block_size_, blocks_, free_list_, free_under, crashed,
                   mutex_, t_ptr, t_tmp, thread_objects, n_dealloc, resets, notThread>>

T_AllocIncLoad(t) == T_CountLoad(t, "a_inc", "a_inc_st")
T_AllocIncStore(t) == T_CountStore(t, "a_inc_st", "a_ret", 1)

\* The lock_guard's destructor: the mutex is released if this thread owns it.
Unlocked(t) == IF mutex_ = t THEN 0 ELSE mutex_

\* allocate() returns (lines 72, 83); the test's ASSERT_NE(obj, nullptr) ends
\* the thread on a null pointer, else thread_objects[t].push_back(obj).
T_AllocReturn(t) ==
    /\ ~crashed
    /\ pc[t] = "a_ret"
    /\ mutex_' = Unlocked(t)
    /\ IF t_ptr[t] = NULL
       THEN /\ pc' = [pc EXCEPT ![t] = "failed"]
            /\ UNCHANGED thread_objects
       ELSE /\ pc' = [pc EXCEPT ![t] = "idle"]
            /\ thread_objects' = [thread_objects EXCEPT ![t] = Append(@, t_ptr[t])]
    /\ UNCHANGED <<poolVars, t_ptr, t_tmp, n_dealloc, resets, notThread>>

\* The loop of line 116: pool.deallocate(thread_objects[t][i]), and line 88 of
\* deallocate(): a null pointer returns at once.
T_CallDeallocate(t) ==
    /\ ~crashed
    /\ pc[t] = "idle"
    /\ Len(thread_objects[t]) = allocations_per_thread
    /\ n_dealloc[t] < allocations_per_thread \div 2
    /\ LET ptr == thread_objects[t][n_dealloc[t] + 1] IN
        /\ t_ptr' = [t_ptr EXCEPT ![t] = ptr]
        /\ n_dealloc' = [n_dealloc EXCEPT ![t] = @ + 1]
        /\ pc' = [pc EXCEPT ![t] = IF ptr = NULL THEN "idle" ELSE "d_lock"]
    /\ UNCHANGED <<poolVars, mutex_, t_tmp, thread_objects, resets, notThread>>

\* deallocate() without its lock_guard.
T_DeallocNoLock(t) ==
    /\ ~crashed
    /\ pc[t] = "d_lock"
    /\ pc' = [pc EXCEPT ![t] = "d_push"]
    /\ UNCHANGED <<poolVars, mutex_, t_ptr, t_tmp, thread_objects, n_dealloc, resets, notThread>>

\* deallocate(), line 90
T_DeallocLock(t) == T_Lock(t, "d_lock", "d_push")

\* deallocate(), lines 93-96: ptr->~T() (trivial) and free_list_.push_back(ptr)
T_DeallocPush(t) ==
    /\ ~crashed
    /\ pc[t] = "d_push"
    /\ IF free_under = 0
       THEN /\ free_list_' = Append(free_list_, t_ptr[t])
            /\ pc' = [pc EXCEPT ![t] = "d_dec"]
            /\ UNCHANGED <<free_under, crashed>>
       ELSE \* the store goes below the buffer
            \/ /\ crashed' = TRUE
               /\ UNCHANGED <<free_list_, free_under, pc>>
            \/ /\ free_under' = free_under - 1
               /\ pc' = [pc EXCEPT ![t] = "d_dec"]
               /\ UNCHANGED <<free_list_, crashed>>
    /\ UNCHANGED <<block_size_, blocks_, allocated_count_,
                   mutex_, t_ptr, t_tmp, thread_objects, n_dealloc, resets, notThread>>

T_DeallocDecLoad(t) == T_CountLoad(t, "d_dec", "d_dec_st")
T_DeallocDecStore(t) == T_CountStore(t, "d_dec_st", "d_ret", -1)

\* deallocate() returns: the lock_guard's destructor
T_DeallocReturn(t) ==
    /\ ~crashed
    /\ pc[t] = "d_ret"
    /\ mutex_' = Unlocked(t)
    /\ pc' = [pc EXCEPT ![t] = "idle"]
    /\ UNCHANGED <<poolVars, t_ptr, t_tmp, thread_objects, n_dealloc, resets, notThread>>

\* A thread between two calls calls reset().
T_CallReset(t) ==
    /\ ~crashed
    /\ pc[t] = "idle"
    /\ resets < MaxResets
    /\ resets' = resets + 1
    /\ pc' = [pc EXCEPT ![t] = "r_lock"]
    /\ UNCHANGED <<poolVars, mutex_, t_ptr, t_tmp, thread_objects, n_dealloc, notThread>>

\* reset(), line 102
T_ResetLock(t) == T_Lock(t, "r_lock", "r_blocks")

\* reset(), line 105: blocks_.clear()
T_ResetBlocks(t) ==
    /\ ~crashed
    /\ pc[t] = "r_blocks"
    /\ blocks_' = <<>>
    /\ pc' = [pc EXCEPT ![t] = "r_free"]
    /\ UNCHANGED <<block_size_, free_list_, free_under, allocated_count_, crashed,
                   mutex_, t_ptr, t_tmp, thread_objects, n_dealloc, resets, notThread>>

\* reset(), line 106: free_list_.clear()
T_ResetFreeList(t) ==
    /\ ~crashed
    /\ pc[t] = "r_free"
    /\ free_list_' = <<>>
    /\ free_under' = 0
    /\ pc' = [pc EXCEPT ![t] = "r_count"]
    /\ UNCHANGED <<block_size_, blocks_, allocated_count_, crashed,
                   mutex_, t_ptr, t_tmp, thread_objects, n_dealloc, resets, notThread>>

\* reset(), line 107: allocated_count_ = 0
T_ResetCount(t) ==
    /\ ~crashed
    /\ pc[t] = "r_count"
    /\ allocated_count_' = 0
    /\ pc' = [pc EXCEPT ![t] = "r_new"]
    /\ UNCHANGED <<block_size_, blocks_, free_list_, free_under, crashed,
                   mutex_, t_ptr, t_tmp, thread_objects, n_dealloc, resets, notThread>>

\* reset(), line 110: allocateNewBlock()
T_ResetNewBlock(t) ==
    /\ ~crashed
    /\ pc[t] = "r_new"
    /\ blocks_' = allocateNewBlock(blocks_)
    /\ pc' = [pc EXCEPT ![t] = "r_ret"]
    /\ UNCHANGED <<block_size_, free_list_, free_under, allocated_count_, crashed,
                   mutex_, t_ptr, t_tmp, thread_objects, n_dealloc, resets, notThread>>

\* reset() returns: the lock_guard's destructor
T_ResetReturn(t) ==
    /\ ~crashed
    /\ pc[t] = "r_ret"
    /\ mutex_' = Unlocked(t)
    /\ pc' = [pc EXCEPT ![t] = "idle"]
    /\ UNCHANGED <<poolVars, t_ptr, t_tmp, thread_objects, n_dealloc, resets, notThread>>

(***************************************************************************)
(* PointCloud and Octree.                                                  *)
(*                                                                         *)
(* A float coordinate x is the integer x * Unit.  The clouds and queries   *)
(* of the model have integer float coordinates, so every centre down to    *)
(* depth MAX_DEPTH, every difference, product and sum the code computes on *)
(* them is a multiple of 1 / Unit that a float holds exactly, except the   *)
(* squared distance to a node's box, whose rounding is monotone and cannot *)
(* turn a box within the radius into one outside it.                       *)
(***************************************************************************)
\* OctreeNode::MAX_POINTS_PER_LEAF
MAX_POINTS_PER_LEAF == 100
\* OctreeNode::MAX_DEPTH
MAX_DEPTH == 10

\* The integer that stands for the float 1.0: MAX_DEPTH + 1 halvings of an
\* integer coordinate are exact.
Unit == 2 ^ (MAX_DEPTH + 1)

\* std::numeric_limits<float>::max(), above every coordinate of the model;
\* std::numeric_limits<float>::lowest() is its negation.
FLT_MAX == 2 ^ 30

Vec(x, y, z) == <<x * Unit, y * Unit, z * Unit>>

\* glm::min and glm::max, componentwise
vmin(a, b) == <<IF b[1] < a[1] THEN b[1] ELSE a[1],
                IF b[2] < a[2] THEN b[2] ELSE a[2],
                IF b[3] < a[3] THEN b[3] ELSE a[3]>>
vmax(a, b) == <<IF a[1] < b[1] THEN b[1] ELSE a[1],
                IF a[2] < b[2] THEN b[2] ELSE a[2],
                IF a[3] < b[3] THEN b[3] ELSE a[3]>>

\* glm::dot(a - b, a - b)
DistSq(a, b) ==
    (a[1] - b[1]) * (a[1] - b[1]) + (a[2] - b[2]) * (a[2] - b[2])
        + (a[3] - b[3]) * (a[3] - b[3])

\* cloud[idx].position, idx counted from 0
Position(pts, idx) == pts[idx + 1]

\* The null pointer to a node.  A node is named by the octants that lead to
\* it from the root.
Null == <<-1>>
RootNode == <<>>

\* OctreeNode::OctreeNode(min_bound, max_bound, depth)
OctreeNode(min_bound, max_bound, depth) ==
    [min_bound_ |-> min_bound, max_bound_ |-> max_bound, depth_ |-> depth,
     children_ |-> [i \in 0..7 |-> Null], point_indices_ |-> <<>>]

\* isLeaf() that also takes a node one level above MAX_DEPTH for a leaf.
isLeafOrDeep(node) == node.children_[0] = Null \/ node.depth_ >= MAX_DEPTH - 1

\* OctreeNode::isLeaf()
isLeaf(node) == node.children_[0] = Null

\* OctreeNode::getCenter(): (min_bound_ + max_bound_) * 0.5f
getCenter(node) ==
    <<(node.min_bound_[1] + node.max_bound_[1]) \div 2,
      (node.min_bound_[2] + node.max_bound_[2]) \div 2,
      (node.min_bound_[3] + node.max_bound_[3]) \div 2>>

\* OctreeNode::getOctant(point)
getOctant(node, point) ==
    LET center == getCenter(node) IN
    (IF point[1] > center[1] THEN 1 ELSE 0)
        + (IF point[2] > center[2] THEN 2 ELSE 0)
        + (IF point[3] > center[3] THEN 4 ELSE 0)

\* i & 1, i & 2, i & 4 for axis k = 1, 2, 3
OctantBit(i, k) == (i \div (2 ^ (k - 1))) % 2 = 1

\* The children with bit 1 of i taken for the y axis and bit 2 for the x axis.
ChildNodeSwappedBits(node, i) ==
    LET center == getCenter(node) IN
    OctreeNode(
        <<IF OctantBit(i, 2) THEN center[1] ELSE node.min_bound_[1],
          IF OctantBit(i, 1) THEN center[2] ELSE node.min_bound_[2],
          IF OctantBit(i, 3) THEN center[3] ELSE node.min_bound_[3]>>,
        <<IF OctantBit(i, 2) THEN node.max_bound_[1] ELSE center[1],
          IF OctantBit(i, 1) THEN node.max_bound_[2] ELSE center[2],
          IF OctantBit(i, 3) THEN node.max_bound_[3] ELSE center[3]>>,
        node.depth_ + 1)

\* subdivide(), lines 28-40: the eight children of node
ChildNode(node, i) ==
    LET center == getCenter(node) IN
    OctreeNode(
        <<IF OctantBit(i, 1) THEN center[1] ELSE node.min_bound_[1],
          IF OctantBit(i, 2) THEN center[2] ELSE node.min_bound_[2],
          IF OctantBit(i, 3) THEN center[3] ELSE node.min_bound_[3]>>,
        <<IF OctantBit(i, 1) THEN node.max_bound_[1] ELSE center[1],
          IF OctantBit(i, 2) THEN node.max_bound_[2] ELSE center[2],
          IF OctantBit(i, 3) THEN node.max_bound_[3] ELSE center[3]>>,
        node.depth_ + 1)

RECURSIVE insertPoint(_, _, _, _)
RECURSIVE subdivide(_, _, _)
RECURSIVE Redistribute(_, _, _, _, _, _)

\* The operators of the build are written flat (CASE, no LET) and the tree is
\* an explicit function at every step, so that the evaluation of a point that
\* sinks through MAX_DEPTH subdivisions nests only a few levels per depth.

\* subdivide() that copies the indices out and leaves the node's list as it is.
SplitKeepIndices(T, n) ==
    [c \in {Append(n, i) : i \in 0..7} |-> ChildNode(T[n], Last(c))]
        @@ [T EXCEPT ![n].children_ = [i \in 0..7 |-> Append(n, i)]]

\* subdivide(), lines 28-43: node n with its eight children, its indices
\* moved out.
Split(T, n) ==
    [c \in {Append(n, i) : i \in 0..7} |-> ChildNode(T[n], Last(c))]
        @@ [T EXCEPT ![n].children_ = [i \in 0..7 |-> Append(n, i)],
                     ![n].point_indices_ = <<>>]

\* insertPoint() with a depth test that lets a leaf at MAX_DEPTH subdivide.
insertPointDeeper(T, n, point_index, pts) ==
    CASE ~isLeaf(T[n]) ->
           insertPoint(T, T[n].children_[getOctant(T[n], Position(pts, point_index))],
                       point_index, pts)
      [] /\ isLeaf(T[n])
         /\ Len(T[n].point_indices_) + 1 > MAX_POINTS_PER_LEAF
         /\ T[n].depth_ <= MAX_DEPTH ->
           subdivide([T EXCEPT ![n].point_indices_ = Append(@, point_index)], n, pts)
      [] OTHER -> [T EXCEPT ![n].point_indices_ = Append(@, point_index)]

\* OctreeNode::insertPoint(point_index, position, cloud) on node n of the
\* tree T; position is cloud[point_index].position at every call.
insertPoint(T, n, point_index, pts) ==
    CASE ~isLeaf(T[n]) ->
           insertPoint(T, T[n].children_[getOctant(T[n], Position(pts, point_index))],
                       point_index, pts)
      [] /\ isLeaf(T[n])
         /\ Len(T[n].point_indices_) + 1 > MAX_POINTS_PER_LEAF
         /\ T[n].depth_ < MAX_DEPTH ->
           subdivide([T EXCEPT ![n].point_indices_ = Append(@, point_index)], n, pts)
      [] OTHER -> [T EXCEPT ![n].point_indices_ = Append(@, point_index)]

\* The loop of subdivide() with the indices appended to the children's lists
\* as they are, without insertPoint.
RedistributeNoCascade(T, n, temp_indices, lo, hi, pts) ==
    [m \in DOMAIN T |->
        IF m \in {T[n].children_[i] : i \in 0..7}
        THEN [T[m] EXCEPT !.point_indices_ =
                 @ \o SelectSeq(SubSeq(temp_indices, lo, hi),
                                LAMBDA idx :
                                    T[n].children_[getOctant(T[n], Position(pts, idx))] = m)]
        ELSE T[m]]


\* subdivide(), lines 46-50: the loop over temp_indices[lo..hi], in order.
\* The range is split in two (before the last index of the list, else in the
\* middle); the tree after the first part is looked at before the second
\* part starts, so that the evaluation nests no deeper than the logarithm of
\* the range.
Redistribute(T, n, temp_indices, lo, hi, pts) ==
    CASE lo > hi -> T
      [] lo = hi ->
           insertPoint(T, T[n].children_[getOctant(T[n], Position(pts, temp_indices[lo]))],
                       temp_indices[lo], pts)
      [] lo < hi /\ hi = Len(temp_indices) ->
           Redistribute(Redistribute(T, n, temp_indices, lo, hi - 1, pts),
                        n, temp_indices, hi, hi, pts)
      [] OTHER ->
           LET T1 == Redistribute(T, n, temp_indices, lo, (lo + hi) \div 2, pts)
           IN IF n \in DOMAIN T1
              THEN Redistribute(T1, n, temp_indices, (lo + hi) \div 2 + 1, hi, pts)
              ELSE T1

\* subdivide() with a loop that starts at the second index of the leaf.
subdivideDropFirst(T, n, pts) ==
    Redistribute(Split(T, n), n, T[n].point_indices_, 2, Len(T[n].point_indices_), pts)

\* OctreeNode::subdivide(cloud) on node n of the tree T
subdivide(T, n, pts) ==
    Redistribute(Split(T, n), n, T[n].point_indices_, 1, Len(T[n].point_indices_), pts)

(***************************************************************************)
(* The queries.  A query appends to one vector as it walks the tree; here  *)
(* each call returns what it appends, in the same order.                   *)
(***************************************************************************)
\* The separation test with the node's lower corner held against the wrong
\* corner of the query box.
BoxDisjointWrongCorner(node, min_bound, max_bound) ==
    \E k \in 1..3 :
        \/ node.max_bound_[k] < min_bound[k]
        \/ node.min_bound_[k] > min_bound[k]

\* queryBoxRecursive, lines 249-251: the node's box and the query box are
\* separated on some axis.
BoxDisjoint(node, min_bound, max_bound) ==
    \E k \in 1..3 :
        \/ node.max_bound_[k] < min_bound[k]
        \/ node.min_bound_[k] > max_bound[k]

\* queryBoxRecursive, lines 259-261
InBox(pos, min_bound, max_bound) ==
    \A k \in 1..3 : pos[k] >= min_bound[k] /\ pos[k] <= max_bound[k]

RECURSIVE queryBoxRecursive(_, _, _, _, _)
RECURSIVE queryBoxChildren(_, _, _, _, _, _, _)

queryBoxRecursive(T, n, pts, min_bound, max_bound) ==
    CASE BoxDisjoint(T[n], min_bound, max_bound) -> <<>>
      [] ~BoxDisjoint(T[n], min_bound, max_bound) /\ isLeaf(T[n]) ->
           SelectSeq(T[n].point_indices_, LAMBDA idx : InBox(Position(pts, idx), min_bound, max_bound))
      [] OTHER -> queryBoxChildren(T, n, pts, min_bound, max_bound, 0, 7)

\* The loop over the children lo..hi, in order.
queryBoxChildren(T, n, pts, min_bound, max_bound, lo, hi) ==
    CASE lo < hi ->
           queryBoxChildren(T, n, pts, min_bound, max_bound, lo, (lo + hi) \div 2)
             \o queryBoxChildren(T, n, pts, min_bound, max_bound, (lo + hi) \div 2 + 1, hi)
      [] lo = hi /\ T[n].children_[lo] # Null ->
           queryBoxRecursive(T, T[n].children_[lo], pts, min_bound, max_bound)
      [] OTHER -> <<>>

\* queryBox() that scans the cloud when the Octree has no root.
queryBoxScanUnbuilt(root, T, pts, min_bound, max_bound) ==
    IF root # Null THEN queryBoxRecursive(T, root, pts, min_bound, max_bound)
    ELSE SelectSeq([k \in 1..Len(pts) |-> k - 1],
                   LAMBDA idx : InBox(Position(pts, idx), min_bound, max_bound))

\* Octree::queryBox
queryBox(root, T, pts, min_bound, max_bound) ==
    IF root # Null THEN queryBoxRecursive(T, root, pts, min_bound, max_bound)
    ELSE <<>>

\* glm::clamp(center, min, max)
clamp(center, lo, hi) ==
    <<IF center[1] < lo[1] THEN lo[1] ELSE IF center[1] > hi[1] THEN hi[1] ELSE center[1],
      IF center[2] < lo[2] THEN lo[2] ELSE IF center[2] > hi[2] THEN hi[2] ELSE center[2],
      IF center[3] < lo[3] THEN lo[3] ELSE IF center[3] > hi[3] THEN hi[3] ELSE center[3]>>

\* queryRadiusRecursive, lines 176-179: the node's box lies outside the sphere
SphereMisses(node, center, radius) ==
    DistSq(center, clamp(center, node.min_bound_, node.max_bound_)) > radius * radius

\* queryRadiusRecursive, lines 185-188
InSphere(pos, center, radius) == DistSq(pos, center) <= radius * radius

RECURSIVE queryRadiusRecursive(_, _, _, _, _)
RECURSIVE queryRadiusChildren(_, _, _, _, _, _, _)

queryRadiusRecursive(T, n, pts, center, radius) ==
    CASE SphereMisses(T[n], center, radius) -> <<>>
      [] ~SphereMisses(T[n], center, radius) /\ isLeaf(T[n]) ->
           SelectSeq(T[n].point_indices_, LAMBDA idx : InSphere(Position(pts, idx), center, radius))
      [] OTHER -> queryRadiusChildren(T, n, pts, center, radius, 0, 7)

\* The loop over the children lo..hi, in order.
queryRadiusChildren(T, n, pts, center, radius, lo, hi) ==
    CASE lo < hi ->
           queryRadiusChildren(T, n, pts, center, radius, lo, (lo + hi) \div 2)
             \o queryRadiusChildren(T, n, pts, center, radius, (lo + hi) \div 2 + 1, hi)
      [] lo = hi /\ T[n].children_[lo] # Null ->
           queryRadiusRecursive(T, T[n].children_[lo], pts, center, radius)
      [] OTHER -> <<>>

\* Octree::queryRadius
queryRadius(root, T, pts, center, radius) ==
    IF root # Null THEN queryRadiusRecursive(T, root, pts, center, radius)
    ELSE <<>>

\* Octree::distanceToPlane; a plane is <<x, y, z, w>>
distanceToPlane(point, plane) ==
    plane[1] * point[1] + plane[2] * point[2] + plane[3] * point[3] + plane[4]

\* The corner of the box furthest against the plane's normal.
NVertex(node, plane) ==
    <<IF plane[1] > 0 THEN node.min_bound_[1] ELSE node.max_bound_[1],
      IF plane[2] > 0 THEN node.min_bound_[2] ELSE node.max_bound_[2],
      IF plane[3] > 0 THEN node.min_bound_[3] ELSE node.max_bound_[3]>>

\* isNodeInFrustum, lines 120-124: the corner of the box furthest along the
\* plane's normal
PVertex(node, plane) ==
    <<IF plane[1] > 0 THEN node.max_bound_[1] ELSE node.min_bound_[1],
      IF plane[2] > 0 THEN node.max_bound_[2] ELSE node.min_bound_[2],
      IF plane[3] > 0 THEN node.max_bound_[3] ELSE node.min_bound_[3]>>

\* The node test made on the centre of the box instead of a corner.
isNodeInFrustumByCenter(node, frustum) ==
    \A j \in DOMAIN frustum : ~(distanceToPlane(getCenter(node), frustum[j]) < 0)

\* Octree::isNodeInFrustum
isNodeInFrustum(node, frustum) ==
    \A j \in DOMAIN frustum : ~(distanceToPlane(PVertex(node, frustum[j]), frustum[j]) < 0)

\* Octree::isPointInFrustum
isPointInFrustum(point, frustum) ==
    \A j \in DOMAIN frustum : ~(distanceToPlane(point, frustum[j]) < 0)

RECURSIVE queryFrustumRecursive(_, _, _, _)
RECURSIVE queryFrustumChildren(_, _, _, _, _, _)

queryFrustumRecursive(T, n, pts, frustum) ==
    CASE ~isNodeInFrustum(T[n], frustum) -> <<>>
      [] isNodeInFrustum(T[n], frustum) /\ isLeaf(T[n]) ->
           SelectSeq(T[n].point_indices_, LAMBDA idx : isPointInFrustum(Position(pts, idx), frustum))
      [] OTHER -> queryFrustumChildren(T, n, pts, frustum, 0, 7)

\* The loop over the children lo..hi, in order.
queryFrustumChildren(T, n, pts, frustum, lo, hi) ==
    CASE lo < hi ->
           queryFrustumChildren(T, n, pts, frustum, lo, (lo + hi) \div 2)
             \o queryFrustumChildren(T, n, pts, frustum, (lo + hi) \div 2 + 1, hi)
      [] lo = hi /\ T[n].children_[lo] # Null ->
           queryFrustumRecursive(T, T[n].children_[lo], pts, frustum)
      [] OTHER -> <<>>

\* Octree::queryFrustum
queryFrustum(root, T, pts, frustum) ==
    IF root # Null THEN queryFrustumRecursive(T, root, pts, frustum)
    ELSE <<>>

RECURSIVE isqrtBetween(_, _, _)
\* The greatest r in lo..hi with r * r <= x, for lo * lo <= x.
isqrtBetween(x, lo, hi) ==
    IF lo = hi THEN lo
    ELSE LET mid == (lo + hi + 1) \div 2
         IN IF mid * mid <= x THEN isqrtBetween(x, mid, hi)
            ELSE isqrtBetween(x, lo, mid - 1)

\* floor(sqrt(x)); 46340 is the greatest root of a 32-bit square.
isqrt(x) == isqrtBetween(x, 0, 46340)

\* The test of line 220 without its depth part.
IsFarByRatio(node, view_position) ==
    /\ DistSq(view_position, getCenter(node)) >= 1
    /\ DistSq(node.max_bound_, node.min_bound_)
          <= (DistSq(view_position, getCenter(node)) - 1) \div 10000

\* queryLODRecursive, lines 212-220: detail_ratio < 0.01f || depth >= 5, with
\* detail_ratio = |max - min| / |view - center|. In the reals the ratio is
\* under 1/100 when 10000 |max - min|^2 < |view - center|^2; at distance 0
\* the ratio is +inf or NaN and the comparison is false.
IsFar(node, view_position) ==
    \/ /\ DistSq(view_position, getCenter(node)) >= 1
       /\ DistSq(node.max_bound_, node.min_bound_)
             <= (DistSq(view_position, getCenter(node)) - 1) \div 10000
    \/ node.depth_ >= 5

\* queryLODRecursive, line 225: max(1, static_cast<int>(dist / base_distance)).
\* With base_distance = 0 the quotient is +inf or NaN and the cast has no
\* defined value: undefined_cast is what the build makes of it. A negative
\* base_distance gives a quotient <= 0.
Stride(node, view_position, base_distance, undefined_cast) ==
    IF base_distance = 0 THEN IF undefined_cast > 1 THEN undefined_cast ELSE 1
    ELSE IF base_distance < 0 THEN 1
    ELSE IF isqrt(DistSq(view_position, getCenter(node)) \div (base_distance * base_distance)) > 1
         THEN isqrt(DistSq(view_position, getCenter(node)) \div (base_distance * base_distance))
         ELSE 1

\* queryLODRecursive, lines 226-228: indices[0], indices[stride], ...
Strided(indices, stride) ==
    [k \in 1..(((Len(indices) - 1) \div stride) + 1) |-> indices[(k - 1) * stride + 1]]

RECURSIVE queryLODRecursive(_, _, _, _, _, _)
RECURSIVE queryLODChildren(_, _, _, _, _, _, _, _)

queryLODRecursive(T, n, view_position, frustum, base_distance, undefined_cast) ==
    CASE ~isNodeInFrustum(T[n], frustum) -> <<>>
      [] isNodeInFrustum(T[n], frustum) /\ IsFar(T[n], view_position) ->
           IF T[n].point_indices_ # <<>>
           THEN Strided(T[n].point_indices_,
                        Stride(T[n], view_position, base_distance, undefined_cast))
           ELSE <<>>
      [] /\ isNodeInFrustum(T[n], frustum)
         /\ ~IsFar(T[n], view_position)
         /\ isLeaf(T[n]) -> T[n].point_indices_
      [] OTHER ->
           queryLODChildren(T, n, view_position, frustum, base_distance, undefined_cast, 0, 7)

\* The loop over the children lo..hi, in order.
queryLODChildren(T, n, view_position, frustum, base_distance, undefined_cast, lo, hi) ==
    CASE lo < hi ->
           queryLODChildren(T, n, view_position, frustum, base_distance, undefined_cast,
                            lo, (lo + hi) \div 2)
             \o queryLODChildren(T, n, view_position, frustum, base_distance, undefined_cast,
                                 (lo + hi) \div 2 + 1, hi)
      [] lo = hi /\ T[n].children_[lo] # Null ->
           queryLODRecursive(T, T[n].children_[lo], view_position, frustum, base_distance,
                             undefined_cast)
      [] OTHER -> <<>>

\* Octree::queryLOD
queryLOD(root, T, view_position, frustum, base_distance, undefined_cast) ==
    IF root # Null
    THEN queryLODRecursive(T, root, view_position, frustum, base_distance, undefined_cast)
    ELSE <<>>

(***************************************************************************)
(* SpecOctree: a loader appends a cloud point by point, build() inserts    *)
(* the points one by one, and queries run on the finished tree.            *)
(***************************************************************************)
\* The side of the grid of the octree tests' fixture.
GridSide == 10
\* The points of a cloud besides its pile of equal points.
MaxExtras == 2
\* build() calls made on one Octree.
MaxBuilds == 2

\* OctreeTest::SetUp: the points (x, y, z), x outermost, of the unit grid.
GridCloud ==
    [i \in 1..(GridSide * GridSide * GridSide) |->
        Vec((i - 1) \div (GridSide * GridSide),
            ((i - 1) \div GridSide) % GridSide,
            (i - 1) % GridSide)]

\* One more point than a leaf keeps, all at p.
Pile(p) == [i \in 1..(MAX_POINTS_PER_LEAF + 1) |-> p]

PilePositions == {Vec(4, 4, 4), Vec(1, 7, 3)}
Positions == {Vec(0, 0, 0), Vec(8, 2, 5), Vec(4, 4, 4)}
Extras == UNION {[1..n -> Positions] : n \in 0..MaxExtras}
Bases == {<<>>} \cup {Pile(p) : p \in PilePositions}

\* The clouds the loader delivers.
Clouds ==
    {GridCloud} \cup {b \o e : b \in Bases, e \in Extras}
                \cup {e \o b : b \in Bases, e \in Extras}

\* The arguments of the queries.
BoxCorners ==
    {Vec(3, 3, 3), Vec(7, 7, 7), Vec(-1, -1, -1), Vec(4, 4, 4), Vec(1, 7, 3), Vec(9, 2, 5)}
RadiusCenters == {Vec(5, 5, 5), Vec(4, 4, 4), Vec(1, 7, 3), Vec(-1, 0, 9)}
Radii == {-2 * Unit, -Unit, 0, Unit, 2 * Unit, 6 * Unit}

\* For each of the six planes of a frustum, the plane of
\* TEST_F(OctreeTest, FrustumQuery) and another one.
PlaneChoices ==
    << {<<0, 0, 1, Unit>>,      <<0, 0, 1, -3 * Unit>>},
       {<<0, 0, -1, 20 * Unit>>, <<0, 0, -1, 5 * Unit>>},
       {<<1, 0, 0, 5 * Unit>>,  <<1, 1, 0, -8 * Unit>>},
       {<<-1, 0, 0, 5 * Unit>>, <<-1, 0, -1, 9 * Unit>>},
       {<<0, 1, 0, 5 * Unit>>,  <<1, -1, 0, 0>>},
       {<<0, -1, 0, 5 * Unit>>, <<0, -2, 1, 4 * Unit>>} >>
Frustums == {f \in [1..6 -> UNION Range(PlaneChoices)] : \A j \in 1..6 : f[j] \in PlaneChoices[j]}

\* The frustum of TEST_F(OctreeTest, FrustumQuery).
TestFrustum ==
    << <<0, 0, 1, Unit>>, <<0, 0, -1, 20 * Unit>>, <<1, 0, 0, 5 * Unit>>,
       <<-1, 0, 0, 5 * Unit>>, <<0, 1, 0, 5 * Unit>>, <<0, -1, 0, 5 * Unit>> >>

\* The arguments of queryLOD: the test's frustum with its near and far
\* planes varied, and base distances >, = and < 0 (10.0f is the default).
LODFrustums == {f \in Frustums : \A j \in 3..6 : f[j] = TestFrustum[j]}
ViewPositions == {Vec(4, 4, 0), Vec(4, 4, 4), Vec(-1, 0, 9)}
BaseDistances == {10 * Unit, 2 * Unit, 0, -Unit}
\* What static_cast<int> of +inf or NaN comes to: INT_MIN where the
\* conversion yields the "integer indefinite" value, INT_MAX where it
\* saturates.
UndefinedCasts(base_distance) ==
    IF base_distance = 0 THEN {-2147483647 - 1, 2147483647} ELSE {0}

NoQuery == [kind |-> "none"]
NoAccess == [call |-> 0, idx |-> 0, outcome |-> "none", point |-> <<>>]

\* PointCloud::updateBounds(point)
updateBounds(lo, hi, point) == <<vmin(lo, point), vmax(hi, point)>>

\* PointCloud::addPoint(position): the loader appends its next point.
AddPoint ==
    /\ o_pc = "load"
    /\ pending # <<>>
    /\ LET point == Head(pending)
           b == updateBounds(min_bound_, max_bound_, point)
       IN /\ points_' = Append(points_, point)
          /\ min_bound_' = b[1]
          /\ max_bound_' = b[2]
    /\ pending' = Tail(pending)
    /\ UNCHANGED <<octreeVars, notOctree>>

\* build() that makes a root only if there is none and inserts the points
\* into the tree it finds.
buildKeepTree ==
    /\ IF points_ = <<>>
       THEN /\ o_pc' = "ready"
            /\ built' = Append(built, nodes)
            /\ UNCHANGED <<root_, nodes, o_i>>
       ELSE /\ root_' = RootNode
            /\ nodes' = IF root_ = Null
                        THEN (RootNode :> OctreeNode(min_bound_, max_bound_, 0))
                        ELSE nodes
            /\ o_i' = 0
            /\ o_pc' = "build"
            /\ UNCHANGED built
    /\ UNCHANGED <<query, results, cloudVars, notOctree>>

\* Octree::build(), lines 69-72: nothing on an empty cloud, else the root
\* node spanning the cloud's bounds (the node root_ held before is destroyed
\* with its subtree).
build ==
    /\ IF points_ = <<>>
       THEN /\ o_pc' = "ready"
            /\ built' = Append(built, nodes)
            /\ UNCHANGED <<root_, nodes, o_i>>
       ELSE /\ root_' = RootNode
            /\ nodes' = (RootNode :> OctreeNode(min_bound_, max_bound_, 0))
            /\ o_i' = 0
            /\ o_pc' = "build"
            /\ UNCHANGED built
    /\ UNCHANGED <<query, results, cloudVars, notOctree>>

\* The first build() call, made when the loader is done.
Build ==
    /\ o_pc = "load"
    /\ pending = <<>>
    /\ build

\* A further build() call on the same Octree.
Rebuild ==
    /\ o_pc = "ready"
    /\ Len(built) < MaxBuilds
    /\ build

\* A turn of the loop that inserts its index twice.
BuildInsertTwice ==
    /\ o_pc = "build"
    /\ nodes' = insertPoint(insertPoint(nodes, root_, o_i, points_), root_, o_i, points_)
    /\ o_i' = o_i + 1
    /\ o_pc' = IF o_i + 1 < Len(points_) THEN "build" ELSE "ready"
    /\ built' = IF o_i + 1 < Len(points_) THEN built ELSE Append(built, nodes')
    /\ UNCHANGED <<root_, query, results, cloudVars, notOctree>>

\* Octree::build(), lines 75-77: one turn of the loop.
BuildInsert ==
    /\ o_pc = "build"
    /\ nodes' = insertPoint(nodes, root_, o_i, points_)
    /\ o_i' = o_i + 1
    /\ o_pc' = IF o_i + 1 < Len(points_) THEN "build" ELSE "ready"
    /\ built' = IF o_i + 1 < Len(points_) THEN built ELSE Append(built, nodes')
    /\ UNCHANGED <<root_, query, results, cloudVars, notOctree>>

\* A query may be made of an Octree that build() was never called on, and of
\* one whose build() has returned.
CanQuery == o_pc = "ready" \/ (o_pc = "load" /\ pending = <<>>)

QueryBox(min_bound, max_bound) ==
    /\ CanQuery
    /\ query' = [kind |-> "box", min_bound |-> min_bound, max_bound |-> max_bound]
    /\ results' = queryBox(root_, nodes, points_, min_bound, max_bound)
    /\ o_pc' = "queried"
    /\ UNCHANGED <<root_, nodes, o_i, built, cloudVars, notOctree>>

QueryRadius(center, radius) ==
    /\ CanQuery
    /\ query' = [kind |-> "radius", center |-> center, radius |-> radius]
    /\ results' = queryRadius(root_, nodes, points_, center, radius)
    /\ o_pc' = "queried"
    /\ UNCHANGED <<root_, nodes, o_i, built, cloudVars, notOctree>>

QueryFrustum(frustum) ==
    /\ CanQuery
    /\ query' = [kind |-> "frustum", frustum |-> frustum]
    /\ results' = queryFrustum(root_, nodes, points_, frustum)
    /\ o_pc' = "queried"
    /\ UNCHANGED <<root_, nodes, o_i, built, cloudVars, notOctree>>

QueryLOD(view_position, frustum, base_distance, undefined_cast) ==
    /\ CanQuery
    /\ query' = [kind |-> "lod", view_position |-> view_position, frustum |-> frustum,
                 base_distance |-> base_distance, undefined_cast |-> undefined_cast]
    /\ results' = queryLOD(root_, nodes, view_position, frustum, base_distance,
                           undefined_cast)
    /\ o_pc' = "queried"
    /\ UNCHANGED <<root_, nodes, o_i, built, cloudVars, notOctree>>

\* The caller is done with the vector it was returned.
QueryReturn ==
    /\ o_pc = "queried"
    /\ query' = NoQuery
    /\ results' = <<>>
    /\ o_pc' = IF built = <<>> THEN "load" ELSE "ready"
    /\ UNCHANGED <<root_, nodes, o_i, built, cloudVars, notOctree>>

(***************************************************************************)
(* The specifications.                                                     *)
(***************************************************************************)
\* MemoryPool(block_size): lines 53-55.
PoolInit(sizes) ==
    /\ block_size_ \in sizes
    /\ blocks_ = allocateNewBlock(<<>>)
    /\ free_list_ = <<>>
    /\ free_under = 0
    /\ allocated_count_ = 0
    /\ crashed = FALSE

\* No call of Spec has been made.
CallerInit ==
    /\ held = <<>>
    /\ log = <<>>

\* The threads are spawned and have called nothing yet.
ThreadInit ==
    /\ mutex_ = 0
    /\ pc = [t \in Threads |-> "idle"]
    /\ t_ptr = [t \in Threads |-> NULL]
    /\ t_tmp = [t \in Threads |-> 0]
    /\ thread_objects = [t \in Threads |-> <<>>]
    /\ n_dealloc = [t \in Threads |-> 0]
    /\ resets = 0

\* PointCloud(): no points, and the bounds of lines 80-81 of PointCloud.h.
CloudInit(clouds) ==
    /\ points_ = <<>>
    /\ min_bound_ = <<FLT_MAX, FLT_MAX, FLT_MAX>>
    /\ max_bound_ = <<-FLT_MAX, -FLT_MAX, -FLT_MAX>>
    /\ pending \in clouds
    /\ c_ops = 0
    /\ access = NoAccess

\* Octree(cloud): no root.
OctreeInit ==
    /\ root_ = Null
    /\ nodes = <<>>
    /\ o_pc = "load"
    /\ o_i = 0
    /\ query = NoQuery
    /\ results = <<>>
    /\ built = <<>>

\* Threads that call the const members of one Octree at the same time.
num_readers == 2
Readers == 1..num_readers

\* No reader has called anything yet.
ReaderInit ==
    /\ r_pc = [r \in Readers |-> "idle"]
    /\ r_query = [r \in Readers |-> NoQuery]
    /\ r_results = [r \in Readers |-> <<>>]
    /\ r_i = [r \in Readers |-> 0]

Init ==
    /\ PoolInit(1..MaxBlockSize)
    /\ CallerInit
    /\ ThreadInit
    /\ CloudInit({<<>>})
    /\ OctreeInit
    /\ ReaderInit

Next ==
    \/ Allocate
    \/ DeallocateNull
    \/ \E ptr \in Range(held) : Deallocate(ptr)
    \/ Reset

Spec == Init /\ [][Next]_vars

InitThreads ==
    /\ PoolInit(1..MaxSharedBlockSize)
    /\ CallerInit
    /\ ThreadInit
    /\ CloudInit({<<>>})
    /\ OctreeInit
    /\ ReaderInit

NextThreads ==
    \E t \in Threads :
        \/ T_CallAllocate(t)
        \/ T_AllocLock(t)
        \/ T_AllocTest(t)
        \/ T_AllocBump(t)
        \/ T_AllocPop(t)
        \/ T_AllocIncLoad(t)
        \/ T_AllocIncStore(t)
        \/ T_AllocReturn(t)
        \/ T_CallDeallocate(t)
        \/ T_DeallocLock(t)
        \/ T_DeallocPush(t)
        \/ T_DeallocDecLoad(t)
        \/ T_DeallocDecStore(t)
        \/ T_DeallocReturn(t)
        \/ T_CallReset(t)
        \/ T_ResetLock(t)
        \/ T_ResetBlocks(t)
        \/ T_ResetFreeList(t)
        \/ T_ResetCount(t)
        \/ T_ResetNewBlock(t)
        \/ T_ResetReturn(t)

SpecThreads == InitThreads /\ [][NextThreads]_vars

\* A step of thread t.
ThreadRuns(t) ==
    NextThreads /\ <<pc[t], n_dealloc[t], crashed>>' # <<pc[t], n_dealloc[t], crashed>>

\* The scheduler is fair: a thread that can take a step is not passed over
\* for ever.
SpecThreadsFair == SpecThreads /\ \A t \in Threads : WF_vars(ThreadRuns(t))

InitOctree ==
    /\ PoolInit({1})
    /\ CallerInit
    /\ ThreadInit
    /\ CloudInit(Clouds)
    /\ OctreeInit
    /\ ReaderInit

\* The queries of the octree tests: on the tree a build() has left.
NextOctree ==
    \/ AddPoint
    \/ Build
    \/ BuildInsert
    \/ \E min_bound, max_bound \in BoxCorners :
          o_pc = "ready" /\ QueryBox(min_bound, max_bound)
    \/ \E center \in RadiusCenters, radius \in Radii :
          o_pc = "ready" /\ QueryRadius(center, radius)
    \/ \E frustum \in Frustums :
          o_pc = "ready" /\ QueryFrustum(frustum)
    \/ \E view_position \in ViewPositions, frustum \in LODFrustums,
          base_distance \in BaseDistances :
          \E undefined_cast \in UndefinedCasts(base_distance) :
              /\ o_pc = "ready"
              /\ QueryLOD(view_position, frustum, base_distance, undefined_cast)
    \/ QueryReturn

SpecOctree == InitOctree /\ [][NextOctree]_vars

(***************************************************************************)
(* SpecCloud: the owner of a PointCloud calls its public operations, one   *)
(* after the other, on a cloud that starts empty.                          *)
(***************************************************************************)
\* Calls the owner makes.
MaxCloudOps == 4

notCloud == <<octreeVars, poolVars, callerVars, threadVars, readerVars>>

\* The arguments of the calls.
CloudPositions == {Vec(5, 5, 5), Vec(-2, 3, 0), Vec(1, 1, 8)}
CloudSizes == {0, 1, 3}
\* The upper three rows of a mat4, as the 3x3 block and the fourth column:
\* a translation, a quarter turn about z, a mirror in x with a shift.
Transformations ==
    { << <<1, 0, 0>>, <<0, 1, 0>>, <<0, 0, 1>>, Vec(1, -2, 0)>>,
      << <<0, -1, 0>>, <<1, 0, 0>>, <<0, 0, 1>>, Vec(0, 0, 0)>>,
      << <<-1, 0, 0>>, <<0, 1, 0>>, <<0, 0, 1>>, Vec(3, 0, 0)>> }
Factors == {2, -1, 0}
Targets == {Vec(0, 0, 0), Vec(2, -1, 4)}
AtIndices == 0..3

RECURSIVE FoldBounds(_, _, _, _)
\* updateBounds(), lines 154-156: updateBounds(point) over points k.. of pts
FoldBounds(pts, k, lo, hi) ==
    IF k > Len(pts) THEN <<lo, hi>>
    ELSE FoldBounds(pts, k + 1, vmin(lo, pts[k]), vmax(hi, pts[k]))

\* PointCloud::updateBounds(): both bounds 0 for an empty cloud, else the
\* fold from FLT_MAX and lowest().
updateBoundsOfAll(pts) ==
    IF pts = <<>> THEN <<Vec(0, 0, 0), Vec(0, 0, 0)>>
    ELSE FoldBounds(pts, 1, <<FLT_MAX, FLT_MAX, FLT_MAX>>,
                    <<-FLT_MAX, -FLT_MAX, -FLT_MAX>>)

\* x + t in floats: FLT_MAX and lowest() absorb the coordinates of the model.
fadd(x, t) ==
    IF x >= FLT_MAX THEN FLT_MAX
    ELSE IF x <= -FLT_MAX THEN -FLT_MAX
    ELSE x + t

vadd(a, t) == <<fadd(a[1], t[1]), fadd(a[2], t[2]), fadd(a[3], t[3])>>

\* PointCloud::getCenter(): (min_bound_ + max_bound_) * 0.5f
cloudCenter(lo, hi) ==
    <<(lo[1] + hi[1]) \div 2, (lo[2] + hi[2]) \div 2, (lo[3] + hi[3]) \div 2>>

\* glm::vec3(transformation * vec4(position, 1.0f))
Apply(m, q) ==
    <<m[1][1] * q[1] + m[1][2] * q[2] + m[1][3] * q[3] + m[4][1],
      m[2][1] * q[1] + m[2][2] * q[2] + m[2][3] * q[3] + m[4][2],
      m[3][1] * q[1] + m[3][2] * q[2] + m[3][3] * q[3] + m[4][3]>>

\* PointCloud::at(idx) with a clamped index, and a default point on an empty
\* cloud.
atClamped(pts, idx) ==
    IF pts = <<>> THEN [outcome |-> "returned", point |-> Vec(0, 0, 0)]
    ELSE IF idx >= Len(pts) THEN [outcome |-> "returned", point |-> pts[Len(pts)]]
    ELSE [outcome |-> "returned", point |-> pts[idx + 1]]

\* PointCloud::at(idx): throws std::out_of_range, or returns points_[idx].
at(pts, idx) ==
    IF idx >= Len(pts) THEN [outcome |-> "out_of_range", point |-> <<>>]
    ELSE [outcome |-> "returned", point |-> pts[idx + 1]]

\* PointCloud::addPoint(position)
CallAddPoint(position) ==
    /\ c_ops < MaxCloudOps
    /\ points_' = Append(points_, position)
    /\ min_bound_' = updateBounds(min_bound_, max_bound_, position)[1]
    /\ max_bound_' = updateBounds(min_bound_, max_bound_, position)[2]
    /\ c_ops' = c_ops + 1
    /\ UNCHANGED <<pending, access, notCloud>>

\* PointCloud::clear()
CallClear ==
    /\ c_ops < MaxCloudOps
    /\ points_' = <<>>
    /\ min_bound_' = updateBoundsOfAll(<<>>)[1]
    /\ max_bound_' = updateBoundsOfAll(<<>>)[2]
    /\ c_ops' = c_ops + 1
    /\ UNCHANGED <<pending, access, notCloud>>

\* PointCloud::resize(size): the first size points, or the points and
\* default-constructed ones (position 0) after them.
CallResize(size) ==
    /\ c_ops < MaxCloudOps
    /\ points_' = IF size <= Len(points_)
                  THEN SubSeq(points_, 1, size)
                  ELSE points_ \o [k \in 1..(size - Len(points_)) |-> Vec(0, 0, 0)]
    /\ min_bound_' = updateBoundsOfAll(points_')[1]
    /\ max_bound_' = updateBoundsOfAll(points_')[2]
    /\ c_ops' = c_ops + 1
    /\ UNCHANGED <<pending, access, notCloud>>

\* PointCloud::transform(transformation)
CallTransform(transformation) ==
    /\ c_ops < MaxCloudOps
    /\ points_' = [k \in 1..Len(points_) |-> Apply(transformation, points_[k])]
    /\ min_bound_' = updateBoundsOfAll(points_')[1]
    /\ max_bound_' = updateBoundsOfAll(points_')[2]
    /\ c_ops' = c_ops + 1
    /\ UNCHANGED <<pending, access, notCloud>>

\* PointCloud::translateCentroid(target): the points and both bounds are
\* moved by target - getCenter(); the bounds are not computed again.
CallTranslateCentroid(target) ==
    /\ c_ops < MaxCloudOps
    /\ LET centroid == cloudCenter(min_bound_, max_bound_)
           translation == <<target[1] - centroid[1], target[2] - centroid[2],
                            target[3] - centroid[3]>>
       IN /\ points_' = [k \in 1..Len(points_) |-> vadd(points_[k], translation)]
          /\ min_bound_' = vadd(min_bound_, translation)
          /\ max_bound_' = vadd(max_bound_, translation)
    /\ c_ops' = c_ops + 1
    /\ UNCHANGED <<pending, access, notCloud>>

\* PointCloud::scale(factor)
CallScale(factor) ==
    /\ c_ops < MaxCloudOps
    /\ LET center == cloudCenter(min_bound_, max_bound_)
       IN points_' = [k \in 1..Len(points_) |->
                         <<center[1] + factor * (points_[k][1] - center[1]),
                           center[2] + factor * (points_[k][2] - center[2]),
                           center[3] + factor * (points_[k][3] - center[3])>>]
    /\ min_bound_' = updateBoundsOfAll(points_')[1]
    /\ max_bound_' = updateBoundsOfAll(points_')[2]
    /\ c_ops' = c_ops + 1
    /\ UNCHANGED <<pending, access, notCloud>>

\* PointCloud::at(idx), the owner's c_ops + 1st call
CallAt(idx) ==
    /\ c_ops < MaxCloudOps
    /\ access' = [call |-> c_ops + 1, idx |-> idx,
                  outcome |-> at(points_, idx).outcome, point |-> at(points_, idx).point]
    /\ c_ops' = c_ops + 1
    /\ UNCHANGED <<cloudVars, notCloud>>

InitCloud ==
    /\ PoolInit({1})
    /\ CallerInit
    /\ ThreadInit
    /\ CloudInit({<<>>})
    /\ OctreeInit
    /\ ReaderInit

NextCloud ==
    \/ \E position \in CloudPositions : CallAddPoint(position)
    \/ CallClear
    \/ \E size \in CloudSizes : CallResize(size)
    \/ \E transformation \in Transformations : CallTransform(transformation)
    \/ \E target \in Targets : CallTranslateCentroid(target)
    \/ \E factor \in Factors : CallScale(factor)
    \/ \E idx \in AtIndices : CallAt(idx)

SpecCloud == InitCloud /\ [][NextCloud]_vars

\* SpecRebuild: queries at any time, before the first build() too, and
\* build() called again on the same Octree over the same cloud.
RebuildClouds == {GridCloud} \cup {b \o e : b \in Bases, e \in Extras}

InitRebuild ==
    /\ PoolInit({1})
    /\ CallerInit
    /\ ThreadInit
    /\ CloudInit(RebuildClouds)
    /\ OctreeInit
    /\ ReaderInit

NextRebuild ==
    \/ AddPoint
    \/ Build
    \/ BuildInsert
    \/ Rebuild
    \/ \E min_bound, max_bound \in BoxCorners : QueryBox(min_bound, max_bound)
    \/ \E center \in RadiusCenters, radius \in Radii : QueryRadius(center, radius)
    \/ \E frustum \in LODFrustums : QueryFrustum(frustum)
    \/ \E view_position \in ViewPositions, frustum \in LODFrustums,
          base_distance \in BaseDistances :
          \E undefined_cast \in UndefinedCasts(base_distance) :
              QueryLOD(view_position, frustum, base_distance, undefined_cast)
    \/ QueryReturn

SpecRebuild == InitRebuild /\ [][NextRebuild]_vars

\* The build alone, insertion by insertion.
NextBuild ==
    \/ AddPoint
    \/ Build
    \/ BuildInsert

SpecBuild == InitOctree /\ [][NextBuild]_vars

\* A turn of build()'s loop, lines 75-77, seen by its counter: the steps of
\* SpecBuild that advance o_i during a build are the BuildInsert steps.
LoopTurn == o_pc = "build" /\ o_i' = o_i + 1

\* build() is a straight-line loop of one thread: while it is under way, its
\* next turn is taken.
SpecBuildFair == SpecBuild /\ WF_o_i(LoopTurn)

(***************************************************************************)
(* SpecReaders: once build() has returned, threads call the const members  *)
(* of the Octree at the same time, with no lock.  A call walks the tree    *)
(* with a vector (or three counters) of its own; a step of a reader is the *)
(* visit of the root or of the subtree of one child of the root.           *)
(***************************************************************************)
\* What two countNodesRecursive calls add to total_count, leaf_count and
\* max_depth, one after the other.
AddCounts(a, b) == <<a[1] + b[1], a[2] + b[2], IF a[3] < b[3] THEN b[3] ELSE a[3]>>

RECURSIVE NodesUnder(_, _, _, _)
RECURSIVE LeavesUnder(_, _, _, _)
RECURSIVE DepthsUnder(_, _, _, _)

\* countNodesRecursive on the children lo..hi of node n of the tree T, in
\* order: the total_count++ it makes, the leaf_count++ it makes, and the
\* depths it holds against max_depth.  (Each operand is named once in each
\* operator, so that its evaluation is not repeated.)
NodesUnder(T, n, lo, hi) ==
    CASE lo < hi ->
           NodesUnder(T, n, lo, (lo + hi) \div 2)
             + NodesUnder(T, n, (lo + hi) \div 2 + 1, hi)
      [] lo = hi /\ T[n].children_[lo] = Null -> 0
      [] lo = hi /\ T[n].children_[lo] # Null /\ isLeaf(T[T[n].children_[lo]]) -> 1
      [] OTHER -> 1 + NodesUnder(T, T[n].children_[lo], 0, 7)

LeavesUnder(T, n, lo, hi) ==
    CASE lo < hi ->
           LeavesUnder(T, n, lo, (lo + hi) \div 2)
             + LeavesUnder(T, n, (lo + hi) \div 2 + 1, hi)
      [] lo = hi /\ T[n].children_[lo] = Null -> 0
      [] lo = hi /\ T[n].children_[lo] # Null /\ isLeaf(T[T[n].children_[lo]]) -> 1
      [] OTHER -> LeavesUnder(T, T[n].children_[lo], 0, 7)

DepthsUnder(T, n, lo, hi) ==
    CASE lo < hi ->
           DepthsUnder(T, n, lo, (lo + hi) \div 2)
             \cup DepthsUnder(T, n, (lo + hi) \div 2 + 1, hi)
      [] lo = hi /\ T[n].children_[lo] = Null -> {}
      [] lo = hi /\ T[n].children_[lo] # Null /\ isLeaf(T[T[n].children_[lo]]) ->
           {T[T[n].children_[lo]].depth_}
      [] OTHER ->
           {T[T[n].children_[lo]].depth_} \cup DepthsUnder(T, T[n].children_[lo], 0, 7)

\* std::max over the depths met, from max_depth = 0.
MaxDepthOf(depths) == CHOOSE d \in depths \cup {0} : \A e \in depths : e <= d

\* Octree::countNodesRecursive on node n of the tree T: what it adds to
\* total_count and leaf_count, and the max_depth it finds.
countNodesRecursive(T, n) ==
    IF isLeaf(T[n]) THEN <<1, 1, T[n].depth_>>
    ELSE <<1 + NodesUnder(T, n, 0, 7), LeavesUnder(T, n, 0, 7),
           MaxDepthOf({T[n].depth_} \cup DepthsUnder(T, n, 0, 7))>>

\* Octree::getNodeCount()
getNodeCount == IF root_ # Null THEN countNodesRecursive(nodes, root_)[1] ELSE 0

\* Octree::getLeafCount()
getLeafCount == IF root_ # Null THEN countNodesRecursive(nodes, root_)[2] ELSE 0

\* The statistics calls.
Statistics == {"getMaxDepth", "getNodeCount", "getLeafCount"}

\* The calls the readers make.
ReaderCalls ==
    {[kind |-> "box", min_bound |-> Vec(3, 3, 3), max_bound |-> Vec(7, 7, 7)],
     [kind |-> "radius", center |-> Vec(4, 4, 4), radius |-> 2 * Unit],
     [kind |-> "frustum", frustum |-> TestFrustum],
     [kind |-> "lod", view_position |-> Vec(4, 4, 4), frustum |-> TestFrustum,
      base_distance |-> 10 * Unit, undefined_cast |-> 0]}
        \cup {[kind |-> k] : k \in Statistics}

\* The clouds of SpecReaders: the fixture's grid, and a pile with two points
\* elsewhere.
ReaderClouds == {GridCloud, Pile(Vec(4, 4, 4)) \o <<Vec(0, 0, 0), Vec(8, 2, 5)>>}

\* The call q, arrived at node n of the tree T, goes on to the children of n.
Descends(T, n, q) ==
    CASE q.kind = "box" ->
           ~BoxDisjoint(T[n], q.min_bound, q.max_bound) /\ ~isLeaf(T[n])
      [] q.kind = "radius" ->
           ~SphereMisses(T[n], q.center, q.radius) /\ ~isLeaf(T[n])
      [] q.kind = "frustum" ->
           isNodeInFrustum(T[n], q.frustum) /\ ~isLeaf(T[n])
      [] q.kind = "lod" ->
           /\ isNodeInFrustum(T[n], q.frustum)
           /\ ~IsFar(T[n], q.view_position)
           /\ ~isLeaf(T[n])
      [] OTHER -> ~isLeaf(T[n])

\* What the recursive function of the call q adds on node n of the tree T.
Visit(T, n, q) ==
    CASE q.kind = "box" -> queryBoxRecursive(T, n, points_, q.min_bound, q.max_bound)
      [] q.kind = "radius" -> queryRadiusRecursive(T, n, points_, q.center, q.radius)
      [] q.kind = "frustum" -> queryFrustumRecursive(T, n, points_, q.frustum)
      [] q.kind = "lod" ->
           queryLODRecursive(T, n, q.view_position, q.frustum, q.base_distance,
                             q.undefined_cast)
      [] OTHER -> countNodesRecursive(T, n)

\* The locals of a call as it starts, and after the root when the call goes
\* on to the children.
NoResults(q) == IF q.kind \in Statistics THEN <<0, 0, 0>> ELSE <<>>
PastRoot(T, n, q) == IF q.kind \in Statistics THEN <<1, 0, T[n].depth_>> ELSE <<>>
Gathered(q, acc, more) == IF q.kind \in Statistics THEN AddCounts(acc, more) ELSE acc \o more

\* A reader calls a query or a statistics member of the built Octree.
R_Call(r, q) ==
    /\ o_pc = "ready"
    /\ r_pc[r] = "idle"
    /\ r_pc' = [r_pc EXCEPT ![r] = "called"]
    /\ r_query' = [r_query EXCEPT ![r] = q]
    /\ r_results' = [r_results EXCEPT ![r] = NoResults(q)]
    /\ r_i' = [r_i EXCEPT ![r] = 0]
    /\ UNCHANGED notReader

\* The test of root_ and the recursive function on the root, up to its loop
\* over the children.
R_Enter(r) ==
    /\ r_pc[r] = "called"
    /\ IF root_ = Null
       THEN /\ r_pc' = [r_pc EXCEPT ![r] = "done"]
            /\ UNCHANGED r_results
       ELSE IF Descends(nodes, root_, r_query[r])
       THEN /\ r_pc' = [r_pc EXCEPT ![r] = "children"]
            /\ r_results' = [r_results EXCEPT ![r] = PastRoot(nodes, root_, r_query[r])]
       ELSE /\ r_pc' = [r_pc EXCEPT ![r] = "done"]
            /\ r_results' = [r_results EXCEPT ![r] = Visit(nodes, root_, r_query[r])]
    /\ UNCHANGED <<r_query, r_i, notReader>>

\* A turn of the loop that takes the indices of the child's own list out of
\* the node as it reads them.
R_ChildTakingIndices(r) ==
    /\ r_pc[r] = "children"
    /\ r_results' =
          [r_results EXCEPT ![r] =
              IF nodes[root_].children_[r_i[r]] # Null
              THEN Gathered(r_query[r], @,
                            Visit(nodes, nodes[root_].children_[r_i[r]], r_query[r]))
              ELSE @]
    /\ nodes' = IF nodes[root_].children_[r_i[r]] # Null
                THEN [nodes EXCEPT ![nodes[root_].children_[r_i[r]]].point_indices_ = <<>>]
                ELSE nodes
    /\ r_i' = [r_i EXCEPT ![r] = @ + 1]
    /\ r_pc' = [r_pc EXCEPT ![r] = IF r_i[r] + 1 < 8 THEN "children" ELSE "done"]
    /\ UNCHANGED <<r_query, root_, o_pc, o_i, query, results, built,
                   poolVars, callerVars, threadVars, cloudVars, ownerVars>>

\* A turn of the root's loop over its children: the recursive function on
\* child r_i.
R_Child(r) ==
    /\ r_pc[r] = "children"
    /\ r_results' =
          [r_results EXCEPT ![r] =
              IF nodes[root_].children_[r_i[r]] # Null
              THEN Gathered(r_query[r], @,
                            Visit(nodes, nodes[root_].children_[r_i[r]], r_query[r]))
              ELSE @]
    /\ r_i' = [r_i EXCEPT ![r] = @ + 1]
    /\ r_pc' = [r_pc EXCEPT ![r] = IF r_i[r] + 1 < 8 THEN "children" ELSE "done"]
    /\ UNCHANGED <<r_query, notReader>>

\* The call returns and the reader drops what it was returned.
R_Return(r) ==
    /\ r_pc[r] = "done"
    /\ r_pc' = [r_pc EXCEPT ![r] = "idle"]
    /\ r_query' = [r_query EXCEPT ![r] = NoQuery]
    /\ r_results' = [r_results EXCEPT ![r] = <<>>]
    /\ r_i' = [r_i EXCEPT ![r] = 0]
    /\ UNCHANGED notReader

InitReaders ==
    /\ PoolInit({1})
    /\ CallerInit
    /\ ThreadInit
    /\ CloudInit(ReaderClouds)
    /\ OctreeInit
    /\ ReaderInit

NextReaders ==
    \/ AddPoint
    \/ Build
    \/ BuildInsert
    \/ \E r \in Readers, q \in ReaderCalls : R_Call(r, q)
    \/ \E r \in Readers : R_Enter(r)
    \/ \E r \in Readers : R_Child(r)
    \/ \E r \in Readers : R_Return(r)

SpecReaders == InitReaders /\ [][NextReaders]_vars

(***************************************************************************)
(* SpecHistory: the owner of the cloud clears it between build() calls on  *)
(* the same Octree, and LOD queries run on what the build() calls leave.   *)
(* queryLOD reads the tree only.  (The other three queries read            *)
(* cloud[idx].position for the indices they find in the tree, which after  *)
(* clear() is a read past the end of points_; they are not called here.)   *)
(***************************************************************************)
\* The clouds the loader delivers: none, one point, and a pile with two
\* points elsewhere.
HistoryClouds ==
    {<<>>, <<Vec(4, 4, 4)>>, Pile(Vec(4, 4, 4)) \o <<Vec(0, 0, 0), Vec(8, 2, 5)>>}

\* cloud.clear() between two calls on the Octree.
Clear ==
    /\ o_pc = "ready"
    /\ CallClear

InitHistory ==
    /\ PoolInit({1})
    /\ CallerInit
    /\ ThreadInit
    /\ CloudInit(HistoryClouds)
    /\ OctreeInit
    /\ ReaderInit

NextHistory ==
    \/ AddPoint
    \/ Build
    \/ BuildInsert
    \/ Clear
    \/ Rebuild
    \/ \E view_position \in ViewPositions, frustum \in LODFrustums,
          base_distance \in BaseDistances :
          \E undefined_cast \in UndefinedCasts(base_distance) :
              QueryLOD(view_position, frustum, base_distance, undefined_cast)
    \/ QueryReturn

SpecHistory == InitHistory /\ [][NextHistory]_vars

(***************************************************************************)
(* Claims about the pool, call by call (Spec).                             *)
(***************************************************************************)
IsAllocate(i) == log[i].op = "allocate"
IsDeallocate(i) == log[i].op = "deallocate" /\ log[i].ptr # NULL /\ log[i].returned
OnlyAllocations == \A i \in DOMAIN log : IsAllocate(i)

\* The address the i-th allocation of a fresh pool is bump-allocated at.
NthSlot(i) == <<((i - 1) \div block_size_) + 1, (i - 1) % block_size_>>

\* C1: k allocate() calls in a row on a fresh pool all return, the addresses
\* are non-null and pairwise distinct, allocatedCount() = k and
\* capacity() >= k; past the end of a block the slot comes from a new block.
C1_SequentialAllocations ==
    OnlyAllocations =>
        /\ ~crashed
        /\ \A i \in DOMAIN log : log[i].returned /\ log[i].ptr # NULL
        /\ \A i, j \in DOMAIN log : i # j => log[i].ptr # log[j].ptr
        /\ getAllocatedCount = Len(log)
        /\ getCapacity >= Len(log)
        /\ \A i \in DOMAIN log : log[i].ptr = NthSlot(i)

\* The index of the last reset() in the log, 0 if there is none.
LastReset ==
    LET R == {i \in DOMAIN log : log[i].op = "reset"} IN
    IF R = {} THEN 0 ELSE CHOOSE i \in R : \A j \in R : j <= i

\* The addresses allocate() has returned since the last reset.
Issued ==
    {log[i].ptr : i \in {j \in DOMAIN log :
                            j > LastReset /\ IsAllocate(j) /\ log[j].returned}}

Count(s, a) == Cardinality({i \in DOMAIN s : s[i] = a})

\* C2: every address allocate() has returned since the last reset is either in
\* use exactly once or in the free list, never both.
C2_InUseXorFree ==
    \A a \in Issued :
        \/ Count(held, a) = 1 /\ Count(free_list_, a) = 0
        \/ Count(held, a) = 0 /\ Count(free_list_, a) >= 1

\* The pool addresses in use.
InUse == Range(held) \cap SlotAddrs

\* C3: allocatedCount() is the number of addresses in use.
C3_CountExact == getAllocatedCount = Cardinality(InUse)

\* C4: the allocate() that follows a deallocate(p) returns p, and two
\* allocate() calls after two deallocations return the freed addresses in
\* reverse order.
C4_LifoReuse ==
    /\ \A i \in 1..(Len(log) - 1) :
        (IsDeallocate(i) /\ IsAllocate(i + 1)) =>
            (log[i + 1].returned /\ log[i + 1].ptr = log[i].ptr)
    /\ \A i \in 1..(Len(log) - 3) :
        (IsDeallocate(i) /\ IsDeallocate(i + 1) /\ IsAllocate(i + 2) /\ IsAllocate(i + 3)) =>
            /\ log[i + 2].returned /\ log[i + 2].ptr = log[i + 1].ptr
            /\ log[i + 3].returned /\ log[i + 3].ptr = log[i].ptr

\* C7: after reset() the count is 0, the free list is empty, there is one
\* block with nothing used, capacity() is the block size and positive, and no
\* address issued earlier is in the free list.
C7_ResetState ==
    (Len(log) > 0 /\ Last(log).op = "reset") =>
        /\ getAllocatedCount = 0
        /\ FreeListEmpty
        /\ Len(blocks_) = 1
        /\ blocks_[1].used = 0
        /\ getCapacity = block_size_
        /\ getCapacity > 0
        /\ \A i \in DOMAIN log : IsAllocate(i) => log[i].ptr \notin Range(free_list_)

\* reset() called on a pool that has grown past its first block and has had
\* addresses given back.
C7_Witness ==
    /\ Len(log) > 0
    /\ Last(log).op = "reset"
    /\ \E i \in DOMAIN log : IsDeallocate(i)
    /\ Cardinality({i \in DOMAIN log : IsAllocate(i)}) > block_size_

(***************************************************************************)
(* Claims about the pool under threads (SpecThreads).                      *)
(***************************************************************************)
\* The thread has run the whole lambda of the test.
Finished(t) ==
    /\ pc[t] = "idle"
    /\ Len(thread_objects[t]) = allocations_per_thread
    /\ n_dealloc[t] = allocations_per_thread \div 2

\* The case of the test: no reset(), and one block holds every allocation.
OneBlockRun ==
    /\ resets = 0
    /\ num_threads * allocations_per_thread <= block_size_

\* <<t, i>>: the i-th object thread t was returned.
Returned == {<<t, i>> : t \in Threads, i \in 1..allocations_per_thread}
IsReturned(x) == x[2] <= Len(thread_objects[x[1]])
\* ... and has not passed to deallocate().
IsHeld(x) == IsReturned(x) /\ x[2] > n_dealloc[x[1]]
ObjectAt(x) == thread_objects[x[1]][x[2]]

FinalCount == num_threads * (allocations_per_thread \div 2)

\* C5 as stated: in the one-block run every two addresses returned, to the
\* same or to different threads, differ, and at the end allocatedCount() is
\* N * (M / 2).
C5_AllReturnedDistinct ==
    OneBlockRun =>
        /\ \A x, y \in Returned :
            (IsReturned(x) /\ IsReturned(y) /\ x # y) => ObjectAt(x) # ObjectAt(y)
        /\ (\A t \in Threads : Finished(t)) => getAllocatedCount = FinalCount

\* C5, amended: in the one-block run every two addresses in use at the same
\* time differ and are slots of the pool, and at the end allocatedCount() is
\* N * (M / 2).
C5_HeldDistinct ==
    OneBlockRun =>
        /\ \A x, y \in Returned :
            (IsHeld(x) /\ IsHeld(y) /\ x # y) => ObjectAt(x) # ObjectAt(y)
        /\ \A x \in Returned : IsReturned(x) => ObjectAt(x) \in SlotAddrs
        /\ (\A t \in Threads : Finished(t)) => getAllocatedCount = FinalCount

\* Every thread has finished the one-block run.
C5_Witness ==
    /\ OneBlockRun
    /\ \A t \in Threads : Finished(t)
    /\ getAllocatedCount = FinalCount

\* The statements of allocate(), deallocate() and reset() after the lock_guard.
InCritical(t) ==
    pc[t] \in {"a_test", "a_bump", "a_pop", "a_inc", "a_inc_st", "a_ret",
               "d_push", "d_dec", "d_dec_st", "d_ret",
               "r_blocks", "r_free", "r_count", "r_new", "r_ret"}

MutualExclusion ==
    /\ \A t \in Threads : InCritical(t) => mutex_ = t
    /\ \A t, u \in Threads : (InCritical(t) /\ InCritical(u)) => t = u

\* A step that changes the block list, the free list or the counter is a step
\* of the thread that owns the mutex.
WritesUnderLock ==
    (<<blocks_, free_list_, free_under, allocated_count_>>' #
     <<blocks_, free_list_, free_under, allocated_count_>>) =>
        /\ mutex_ # 0
        /\ InCritical(mutex_)
        /\ pc'[mutex_] # pc[mutex_]
        /\ \A u \in Threads \ {mutex_} : pc'[u] = pc[u]

\* C6: a thread is past the lock_guard of a pool call only while it owns the
\* mutex, so at most one thread is, and every change of the block list, the
\* free list and allocated_count_ is made by the owner of the mutex.
C6_SingleLock == []MutualExclusion /\ [][WritesUnderLock]_vars

\* One thread is inside a call and another waits at a lock_guard.
C6_Witness ==
    \E t, u \in Threads :
        /\ t # u
        /\ InCritical(t)
        /\ pc[u] \in {"a_lock", "d_lock", "r_lock"}

(***************************************************************************)
(* Claims about the octree's queries (SpecOctree).                         *)
(***************************************************************************)
\* The claims about a built tree are about the queries made once a build()
\* call has returned (built # <<>>); C15 is about the queries made before.
\* The indices of the cloud.
Indices == 0..(Len(points_) - 1)

\* Some node of the tree has children.
Subdivided == \E n \in DOMAIN nodes : nodes[n].children_[0] # Null

\* C8: queryBox(min, max) returns the indices of the points p with
\* min <= p <= max on every axis, and no others; on the fixture's grid
\* queryBox([3,3,3], [7,7,7]) returns 125 indices.
C8_BoxQueryExact ==
    (o_pc = "queried" /\ query.kind = "box" /\ built # <<>>) =>
        /\ Range(results) =
             {i \in Indices :
                 /\ query.min_bound[1] <= points_[i + 1][1]
                 /\ points_[i + 1][1] <= query.max_bound[1]
                 /\ query.min_bound[2] <= points_[i + 1][2]
                 /\ points_[i + 1][2] <= query.max_bound[2]
                 /\ query.min_bound[3] <= points_[i + 1][3]
                 /\ points_[i + 1][3] <= query.max_bound[3]}
        /\ (/\ points_ = GridCloud
            /\ query.min_bound = Vec(3, 3, 3)
            /\ query.max_bound = Vec(7, 7, 7)) => Len(results) = 125

\* The box query of TEST_F(OctreeTest, BoxQuery) has returned its 125 indices.
C8_Witness ==
    /\ o_pc = "queried"
    /\ query.kind = "box"
    /\ points_ = GridCloud
    /\ Subdivided
    /\ query.min_bound = Vec(3, 3, 3)
    /\ query.max_bound = Vec(7, 7, 7)
    /\ Len(results) = 125

\* |p - c| squared
Norm2(p, c) ==
    (p[1] - c[1]) * (p[1] - c[1]) + (p[2] - c[2]) * (p[2] - c[2])
        + (p[3] - c[3]) * (p[3] - c[3])

\* C9 as stated: queryRadius(c, r) returns the indices of the points p with
\* |p - c| <= r, and no others, for every r, negative r included (no point
\* is within a negative distance).
C9_RadiusQueryExact ==
    (o_pc = "queried" /\ query.kind = "radius" /\ built # <<>>) =>
        Range(results) =
            {i \in Indices :
                /\ query.radius >= 0
                /\ Norm2(points_[i + 1], query.center) <= query.radius * query.radius}

\* C9, what the code returns instead: the indices of the points p with
\* |p - c| <= |r|, the radius entering the tests only as radius * radius.
C9_RadiusQueryAbs ==
    (o_pc = "queried" /\ query.kind = "radius" /\ built # <<>>) =>
        LET abs == IF query.radius < 0 THEN -query.radius ELSE query.radius IN
        Range(results) =
            {i \in Indices : Norm2(points_[i + 1], query.center) <= abs * abs}

\* C10: queryFrustum returns index i if and only if
\* n . cloud[i].position + d >= 0 for each of the six planes (n, d).
C10_FrustumQueryExact ==
    (o_pc = "queried" /\ query.kind = "frustum" /\ built # <<>>) =>
        Range(results) =
            {i \in Indices :
                \A j \in 1..6 :
                    query.frustum[j][1] * points_[i + 1][1]
                      + query.frustum[j][2] * points_[i + 1][2]
                      + query.frustum[j][3] * points_[i + 1][3]
                      + query.frustum[j][4] >= 0}

\* A frustum query on a subdivided tree has returned some points and left
\* others out.
C10_Witness ==
    /\ o_pc = "queried"
    /\ query.kind = "frustum"
    /\ Subdivided
    /\ results # <<>>
    /\ Len(results) < Len(points_)

(***************************************************************************)
(* Claims about the tree build() makes (SpecBuild).                        *)
(***************************************************************************)
RECURSIVE LeafIndices(_, _)
\* The index lists of the leaves under node n of the tree T, one after the
\* other.
LeafIndices(T, n) ==
    IF isLeaf(T[n])
    THEN T[n].point_indices_
    ELSE LeafIndices(T, T[n].children_[0]) \o LeafIndices(T, T[n].children_[1])
           \o LeafIndices(T, T[n].children_[2]) \o LeafIndices(T, T[n].children_[3])
           \o LeafIndices(T, T[n].children_[4]) \o LeafIndices(T, T[n].children_[5])
           \o LeafIndices(T, T[n].children_[6]) \o LeafIndices(T, T[n].children_[7])

\* The nodes of the tree that are leaves and hold some index.
FilledLeaves == {n \in DOMAIN nodes : isLeaf(nodes[n]) /\ nodes[n].point_indices_ # <<>>}

\* C11: after each insertPoint of build(), and when build() has returned, each
\* of the o_i indices inserted so far is in the index list of exactly one
\* leaf, once: none is lost and none is there twice.
C11_EachIndexOnce ==
    root_ # Null =>
        /\ Len(LeafIndices(nodes, root_)) = o_i
        /\ Range(LeafIndices(nodes, root_)) = 0..(o_i - 1)

\* build() is under way, a leaf has been subdivided and its indices are in
\* more than one leaf.
C11_Witness ==
    /\ o_pc = "build"
    /\ Subdivided
    /\ o_i > MAX_POINTS_PER_LEAF
    /\ o_i < Len(points_)
    /\ Cardinality(FilledLeaves) > 1

\* C12: during and after build(), each node has no child or eight children,
\* each of them a node of the tree, and isLeaf(), which looks at child slot
\* 0 only, is true exactly of the nodes with no child at all.
C12_ZeroOrEightChildren ==
    \A n \in DOMAIN nodes :
        /\ \/ \A i \in 0..7 : nodes[n].children_[i] = Null
           \/ /\ \A i \in 0..7 : nodes[n].children_[i] \in DOMAIN nodes
              /\ Cardinality({nodes[n].children_[i] : i \in 0..7}) = 8
        /\ isLeaf(nodes[n]) <=> \A i \in 0..7 : nodes[n].children_[i] = Null

\* build() is under way on a tree with an internal node under the root, next
\* to leaves.
C12_Witness ==
    /\ o_pc \in {"build", "ready"}
    /\ \E n \in DOMAIN nodes :
          /\ nodes[n].depth_ >= 1
          /\ ~isLeaf(nodes[n])
          /\ \A i \in 0..7 : nodes[n].children_[i] \in DOMAIN nodes
    /\ \E n \in DOMAIN nodes :
          nodes[n].depth_ >= 1 /\ \A i \in 0..7 : nodes[n].children_[i] = Null

\* Octree::getMaxDepth(): the greatest depth of a node of the tree, 0 with
\* no root.
getMaxDepth ==
    IF root_ = Null THEN 0
    ELSE CHOOSE d \in 0..(MAX_DEPTH + 1) :
            /\ \E n \in DOMAIN nodes : nodes[n].depth_ = d
            /\ \A n \in DOMAIN nodes : nodes[n].depth_ <= d

\* C13: a build() that has started returns, on every cloud, those of equal
\* points and of zero volume included, and no node is ever deeper than
\* MAX_DEPTH (getMaxDepth() <= 10).
C13_BuildTerminates ==
    /\ [](\A n \in DOMAIN nodes : nodes[n].depth_ <= MAX_DEPTH)
    /\ [](getMaxDepth <= MAX_DEPTH)
    /\ (o_pc = "build") ~> (o_pc = "ready")

\* build() has returned on a cloud of equal points, whose box has no volume,
\* with a leaf at MAX_DEPTH.
C13_Witness ==
    /\ o_pc = "ready"
    /\ Len(points_) > MAX_POINTS_PER_LEAF
    /\ min_bound_ = max_bound_
    /\ getMaxDepth = MAX_DEPTH

\* C14: a leaf subdivides exactly when an insertion takes it over
\* MAX_POINTS_PER_LEAF indices below MAX_DEPTH, children included, before
\* insertPoint returns: after each insertPoint a leaf above MAX_DEPTH holds
\* at most 100 indices, a node has children only if it is above MAX_DEPTH
\* and more than 100 indices went into it, and the root is a leaf
\* (getMaxDepth() = 0) exactly when at most 100 points went in.
C14_SubdivideOnOverflow ==
    root_ # Null =>
        /\ \A n \in DOMAIN nodes :
              /\ (isLeaf(nodes[n]) /\ nodes[n].depth_ < MAX_DEPTH) =>
                    Len(nodes[n].point_indices_) <= MAX_POINTS_PER_LEAF
              /\ ~isLeaf(nodes[n]) =>
                    /\ nodes[n].depth_ < MAX_DEPTH
                    /\ Len(LeafIndices(nodes, n)) > MAX_POINTS_PER_LEAF
        /\ isLeaf(nodes[root_]) <=> o_i <= MAX_POINTS_PER_LEAF
        /\ o_pc = "ready" => (getMaxDepth = 0 <=> Len(points_) <= MAX_POINTS_PER_LEAF)

\* A leaf at MAX_DEPTH holds more than MAX_POINTS_PER_LEAF indices while the
\* build goes on.
C14_Witness ==
    /\ o_pc = "build"
    /\ \E n \in DOMAIN nodes :
          /\ nodes[n].depth_ = MAX_DEPTH
          /\ Len(nodes[n].point_indices_) > MAX_POINTS_PER_LEAF

(***************************************************************************)
(* Claims about the queries before and after build() calls (SpecRebuild).  *)
(***************************************************************************)
\* C15: on an Octree that build() was never called on, and on one built over
\* an empty cloud, each of the four queries returns an empty vector,
\* whatever its arguments (a query has no other outcome in the code: it
\* returns the vector).
C15_NoTreeNoResults ==
    (o_pc = "queried" /\ (built = <<>> \/ points_ = <<>>)) => results = <<>>

\* A box query that covers points of the cloud has returned from an Octree
\* that was never built.
C15_Witness ==
    /\ o_pc = "queried"
    /\ built = <<>>
    /\ root_ = Null
    /\ query.kind = "box"
    /\ \E i \in Indices : InBox(points_[i + 1], query.min_bound, query.max_bound)
    /\ results = <<>>

\* What the query q returns on the tree T, over the cloud as it is.
Answer(T, q) ==
    LET root == IF T = <<>> THEN Null ELSE RootNode
    IN CASE q.kind = "box" -> queryBox(root, T, points_, q.min_bound, q.max_bound)
         [] q.kind = "radius" -> queryRadius(root, T, points_, q.center, q.radius)
         [] q.kind = "frustum" -> queryFrustum(root, T, points_, q.frustum)
         [] q.kind = "lod" ->
              queryLOD(root, T, q.view_position, q.frustum, q.base_distance,
                       q.undefined_cast)

\* C16: after a second build() on the same Octree over the unchanged cloud,
\* a query of any of the four kinds returns the same set of indices as the
\* same query on the first tree, and the rebuilt tree holds each index of
\* the cloud once: nothing of the earlier tree is left in it.
C16_RebuildSameResults ==
    (o_pc = "queried" /\ Len(built) >= 2) =>
        /\ Range(results) = Range(Answer(built[1], query))
        /\ root_ # Null => Len(LeafIndices(nodes, root_)) = Len(points_)

\* A query has returned some indices from a subdivided tree made by a second
\* build().
C16_Witness ==
    /\ o_pc = "queried"
    /\ Len(built) = 2
    /\ Subdivided
    /\ results # <<>>
    /\ Len(results) < Len(points_)

RECURSIVE LODAsStated(_, _, _)
\* The two tiers as C19 states them, on node n of the tree T for the query
\* q: a far node gives every s-th of the indices under it, a near leaf all
\* of its indices, a near internal node what its eight children give.
LODAsStated(T, n, q) ==
    CASE ~isNodeInFrustum(T[n], q.frustum) -> <<>>
      [] isNodeInFrustum(T[n], q.frustum) /\ IsFar(T[n], q.view_position) ->
           IF LeafIndices(T, n) # <<>>
           THEN Strided(LeafIndices(T, n),
                        Stride(T[n], q.view_position, q.base_distance, q.undefined_cast))
           ELSE <<>>
      [] /\ isNodeInFrustum(T[n], q.frustum)
         /\ ~IsFar(T[n], q.view_position)
         /\ isLeaf(T[n]) -> T[n].point_indices_
      [] OTHER ->
           LODAsStated(T, T[n].children_[0], q) \o LODAsStated(T, T[n].children_[1], q)
             \o LODAsStated(T, T[n].children_[2], q) \o LODAsStated(T, T[n].children_[3], q)
             \o LODAsStated(T, T[n].children_[4], q) \o LODAsStated(T, T[n].children_[5], q)
             \o LODAsStated(T, T[n].children_[6], q) \o LODAsStated(T, T[n].children_[7], q)

\* C19 as stated: queryLOD returns, for each node that passes the frustum
\* test, every s-th index of the points under it if the node is far
\* (|max - min| / distance < 0.01 or depth >= 5), s = max(1,
\* floor(distance / base_distance)); else all indices of a leaf, and the
\* children's results for an internal node.
C19_LODTwoTier ==
    (o_pc = "queried" /\ query.kind = "lod" /\ root_ # Null) =>
        results = LODAsStated(nodes, root_, query)

\* C19, where the code agrees with it: on a tree whose far nodes are all
\* leaves.
C19_LODFarLeaves ==
    (/\ o_pc = "queried"
     /\ query.kind = "lod"
     /\ root_ # Null
     /\ \A n \in DOMAIN nodes :
           IsFar(nodes[n], query.view_position) => isLeaf(nodes[n])) =>
        results = LODAsStated(nodes, root_, query)

\* C20: the vector each of the four queries returns on a built tree holds
\* no index twice, and holds only indices 0..size()-1 of the cloud.
C20_ResultsDistinctInRange ==
    (o_pc = "queried" /\ built # <<>>) =>
        /\ Cardinality(Range(results)) = Len(results)
        /\ Range(results) \subseteq Indices

\* An LOD query has returned more indices than a leaf holds, gathered from
\* several leaves of a built tree.
C20_Witness ==
    /\ o_pc = "queried"
    /\ built # <<>>
    /\ query.kind = "lod"
    /\ Subdivided
    /\ Len(results) > MAX_POINTS_PER_LEAF

(***************************************************************************)
(* Claims about the PointCloud (SpecCloud).                                *)
(***************************************************************************)
\* The least and the greatest coordinate k of the points of the cloud.
MinCoord(k) == CHOOSE x \in {points_[j][k] : j \in DOMAIN points_} :
                  \A j \in DOMAIN points_ : x <= points_[j][k]
MaxCoord(k) == CHOOSE x \in {points_[j][k] : j \in DOMAIN points_} :
                  \A j \in DOMAIN points_ : points_[j][k] <= x

\* C17 as stated: whenever the cloud is not empty, after any calls of
\* addPoint, clear, resize, transform, scale and translateCentroid,
\* getMinBound() and getMaxBound() are the componentwise minimum and maximum
\* of the points in the cloud, also when addPoint follows clear() or
\* resize(0).
C17_BoundsArePointsExtent ==
    points_ # <<>> =>
        /\ min_bound_ = <<MinCoord(1), MinCoord(2), MinCoord(3)>>
        /\ max_bound_ = <<MaxCoord(1), MaxCoord(2), MaxCoord(3)>>

\* C18: at(idx) fails with out_of_range for every idx >= size(), on an empty
\* cloud too, and leaves the points and the bounds as they were; for
\* idx < size() it returns the point stored at idx.
C18_AtChecksIndex ==
    [][access' # access =>
          /\ UNCHANGED cloudVars
          /\ access'.idx >= Len(points_) =>
                access'.outcome = "out_of_range"
          /\ access'.idx < Len(points_) =>
                /\ access'.outcome = "returned"
                /\ access'.point = points_[access'.idx + 1]]_vars

\* The owner's last call was at(size()) on a cloud that holds points, and it
\* failed.
C18_Witness ==
    /\ access.call = c_ops
    /\ points_ # <<>>
    /\ access.idx = Len(points_)
    /\ access.outcome = "out_of_range"


(***************************************************************************)
(* Claims about the order in which allocate() uses its sources (Spec).     *)
(***************************************************************************)
\* The step is a call of allocate().
AllocateStep == Len(log') = Len(log) + 1 /\ Last(log').op = "allocate"

\* The addresses given back and not handed out again, oldest first, after the
\* first n calls of the log.
RECURSIVE Freed(_)
Freed(n) ==
    IF n = 0 THEN <<>>
    ELSE LET e == log[n]
             before == Freed(n - 1) IN
         CASE e.op = "reset" -> <<>>
           [] e.op = "deallocate" /\ e.ptr # NULL -> Append(before, e.ptr)
           [] e.op = "allocate" /\ before # <<>> -> Front(before)
           [] OTHER -> before

\* Some block's used counter is larger after the step.
UsedAdvances ==
    \E b \in DOMAIN blocks_ : b \in DOMAIN blocks_' /\ blocks_'[b].used > blocks_[b].used

\* C21: when the free list is not empty, allocate() returns the address freed
\* most recently and changes no block's used counter, unused slots in the
\* active block or not; a used counter advances only when the free list is
\* empty.
C21_FreeListFirst ==
    [][AllocateStep =>
          /\ ~FreeListEmpty =>
                /\ Last(log').returned
                /\ Freed(Len(log)) # <<>>
                /\ Last(log').ptr = Last(Freed(Len(log)))
                /\ blocks_' = blocks_
          /\ UsedAdvances => FreeListEmpty]_vars

\* allocate() took an address from the free list while the active block had
\* unused slots.
C21_ReuseBeforeBump ==
    /\ Len(log) >= 3
    /\ IsAllocate(Len(log))
    /\ IsDeallocate(Len(log) - 1)
    /\ Last(log).ptr = log[Len(log) - 1].ptr
    /\ Last(blocks_).used < block_size_
    /\ free_under = 0


\* The step is a call of deallocate() or of reset().
DeallocateStep == Len(log') = Len(log) + 1 /\ Last(log').op = "deallocate"
ResetStep == Len(log') = Len(log) + 1 /\ Last(log').op = "reset"

\* C22: between resets capacity() never decreases, it is the number of
\* blocks times the block size and memoryUsage() is capacity() times
\* sizeof(T); deallocate() leaves capacity unchanged; and an allocate() that
\* returns while as many addresses are out as all blocks provide makes
\* capacity strictly larger.
C22_CapacityGrows ==
    [][/\ ~ResetStep => getCapacity' >= getCapacity
       /\ getCapacity' = Len(blocks_') * block_size_'
       /\ getMemoryUsage' = getCapacity' * sizeof_T
       /\ DeallocateStep => getCapacity' = getCapacity
       /\ (AllocateStep /\ Last(log').returned /\ Len(held) >= getCapacity)
              => getCapacity' > getCapacity]_vars

\* An allocate() has returned with every slot of every block already out, and
\* the pool has one more block.
C22_Grown ==
    /\ Len(log) > block_size_
    /\ OnlyAllocations
    /\ Last(log).returned
    /\ Len(blocks_) = 2
    /\ getMemoryUsage = 2 * block_size_ * sizeof_T


(***************************************************************************)
(* Claims about the pool's calls returning (SpecThreadsFair).              *)
(***************************************************************************)
\* The thread is inside allocate(), deallocate() or reset().
InCall(t) == pc[t] \notin {"idle", "failed"}

\* A thread arrives at a lock_guard without the mutex and leaves each call
\* without it.
LockDiscipline ==
    \A t \in Threads :
        /\ pc[t] \in {"a_lock", "d_lock", "r_lock"} => mutex_ # t
        /\ ~InCall(t) => mutex_ # t

\* C29: a call takes the mutex once, not while it holds it, and gives it back
\* when it returns; under a fair scheduler every call of every thread
\* returns.
C29_EveryCallReturns ==
    /\ []LockDiscipline
    /\ \A t \in Threads : InCall(t) ~> ~InCall(t)

\* The lock discipline alone.
C29_LockDiscipline == []LockDiscipline


(***************************************************************************)
(* Claims about the octants and the nodes of a build (SpecBuild).          *)
(***************************************************************************)
\* pos lies in the closed box of the node.
InClosedBox(node, pos) ==
    \A k \in 1..3 : node.min_bound_[k] <= pos[k] /\ pos[k] <= node.max_bound_[k]

\* The leaf an insertion of pos at node n of the tree T ends in.
RECURSIVE RouteLeaf(_, _, _)
RouteLeaf(T, n, pos) ==
    IF isLeaf(T[n]) THEN n
    ELSE RouteLeaf(T, T[n].children_[getOctant(T[n], pos)], pos)

\* Node m is node n or lies under it.
Under(n, m) == Len(m) >= Len(n) /\ SubSeq(m, 1, Len(n)) = n

\* For each internal node, child i spans the upper half of an axis exactly
\* when the bit of that axis is set in i; and for each position of the cloud
\* in the node's closed box, the octant has a bit set exactly where the
\* position is strictly beyond the centre, and the child of that octant holds
\* the position in its closed box.
OctantsAgree ==
    \A n \in DOMAIN nodes :
        ~isLeaf(nodes[n]) =>
            /\ \A i \in 0..7, k \in 1..3 :
                  /\ nodes[nodes[n].children_[i]].min_bound_[k] =
                        IF OctantBit(i, k) THEN getCenter(nodes[n])[k]
                        ELSE nodes[n].min_bound_[k]
                  /\ nodes[nodes[n].children_[i]].max_bound_[k] =
                        IF OctantBit(i, k) THEN nodes[n].max_bound_[k]
                        ELSE getCenter(nodes[n])[k]
            /\ \A pos \in Range(points_) :
                  InClosedBox(nodes[n], pos) =>
                      /\ getOctant(nodes[n], pos) \in 0..7
                      /\ \A k \in 1..3 :
                            OctantBit(getOctant(nodes[n], pos), k)
                                <=> pos[k] > getCenter(nodes[n])[k]
                      /\ InClosedBox(nodes[nodes[n].children_[getOctant(nodes[n], pos)]], pos)

\* Each index in a leaf's list is of a position in the leaf's closed box.
LeavesHoldTheirPoints ==
    \A n \in DOMAIN nodes :
        isLeaf(nodes[n]) =>
            \A j \in DOMAIN nodes[n].point_indices_ :
                InClosedBox(nodes[n], Position(points_, nodes[n].point_indices_[j]))

\* An insertion changes only the leaf its position is routed to and what
\* comes under it: at every internal node on the way the other seven
\* subtrees stay as they are.
InsertTouchesOneSubtree ==
    (o_pc = "build" /\ o_i' = o_i + 1) =>
        /\ DOMAIN nodes \subseteq DOMAIN nodes'
        /\ \A m \in DOMAIN nodes' :
              \/ Under(RouteLeaf(nodes, root_, Position(points_, o_i)), m)
              \/ m \in DOMAIN nodes /\ nodes'[m] = nodes[m]
        /\ o_i \in Range(LeafIndices(nodes', RouteLeaf(nodes, root_, Position(points_, o_i))))

\* C23: child creation and getOctant use one octant code (a bit is set only
\* strictly beyond the centre, a tie goes to the lesser side); a position in
\* an internal node's closed box is routed to one child, whose closed box
\* holds it; an insertion leaves the other seven subtrees unchanged; and
\* every index in a leaf is of a position inside that leaf's closed box.
C23_OctantsConsistent ==
    [][/\ OctantsAgree'
       /\ LeavesHoldTheirPoints'
       /\ InsertTouchesOneSubtree]_vars

\* A leaf below the root holds a point that lies on the centre plane of its
\* parent, on the lesser side, while other points went to other octants.
C23_Witness ==
    /\ o_pc = "ready"
    /\ \E n \in DOMAIN nodes :
          /\ n # <<>>
          /\ isLeaf(nodes[n])
          /\ \E j \in DOMAIN nodes[n].point_indices_ :
                \E k \in 1..3 :
                    /\ Position(points_, nodes[n].point_indices_[j])[k]
                          = getCenter(nodes[Front(n)])[k]
                    /\ ~OctantBit(Last(n), k)
    /\ Cardinality(FilledLeaves) > 1


\* A node that is internal stays internal with the same children; a leaf
\* that becomes internal in the step has its list emptied and its indices,
\* with the one inserted, in the leaves under it; and no internal node holds
\* indices of its own after the step.
LeafToInternalOnce ==
    (o_pc = "build" /\ o_i' = o_i + 1) =>
        /\ \A n \in DOMAIN nodes :
              /\ n \in DOMAIN nodes'
              /\ ~isLeaf(nodes[n]) =>
                    /\ ~isLeaf(nodes'[n])
                    /\ nodes'[n].children_ = nodes[n].children_
              /\ (isLeaf(nodes[n]) /\ ~isLeaf(nodes'[n])) =>
                    /\ nodes'[n].point_indices_ = <<>>
                    /\ Len(LeafIndices(nodes', n)) = Len(nodes[n].point_indices_) + 1
                    /\ Range(LeafIndices(nodes', n)) =
                          Range(nodes[n].point_indices_) \cup {o_i}
        /\ \A n \in DOMAIN nodes' :
              ~isLeaf(nodes'[n]) => nodes'[n].point_indices_ = <<>>

\* C27: within one build a node goes from leaf to internal at most once and
\* never back; when it does, its own list is emptied and its indices are
\* inserted into its children; an internal node holds no indices of its own.
C27_LeafToInternalOnce == [][LeafToInternalOnce]_vars

\* The build goes on after a leaf below the root has become internal.
C27_Witness ==
    /\ o_pc = "build"
    /\ \E n \in DOMAIN nodes :
          /\ n # <<>>
          /\ ~isLeaf(nodes[n])
          /\ nodes[n].point_indices_ = <<>>
          /\ Len(LeafIndices(nodes, n)) > MAX_POINTS_PER_LEAF


(***************************************************************************)
(* Claims about what queryLOD reaches (SpecOctree).                        *)
(***************************************************************************)
\* Node n and every node above it pass the node-level frustum test.
PathInFrustum(n, frustum) ==
    \A k \in 0..Len(n) : isNodeInFrustum(nodes[SubSeq(n, 1, k)], frustum)

\* C28: queryLOD on a built tree returns no index kept in a leaf deeper than
\* 5, whatever the view position, frustum and base distance; and each index
\* it returns is kept in a node whose box, like the box of each node above
\* it, passes the node-level frustum test.
C28_LODStopsAtDepthFive ==
    (o_pc = "queried" /\ query.kind = "lod" /\ built # <<>>) =>
        \A n \in DOMAIN nodes :
            (Range(nodes[n].point_indices_) \cap Range(results) # {}) =>
                /\ nodes[n].depth_ <= 5
                /\ PathInFrustum(n, query.frustum)

\* An LOD query has returned indices, and none of those of a leaf deeper than
\* 5 that holds points, lies in the frustum and is near the view position.
C28_Witness ==
    /\ o_pc = "queried"
    /\ query.kind = "lod"
    /\ built # <<>>
    /\ results # <<>>
    /\ \E n \in DOMAIN nodes :
          /\ nodes[n].depth_ > 5
          /\ nodes[n].point_indices_ # <<>>
          /\ PathInFrustum(n, query.frustum)
          /\ DistSq(nodes[n].max_bound_, nodes[n].min_bound_)
                > DistSq(query.view_position, getCenter(nodes[n])) \div 10000
          /\ Range(nodes[n].point_indices_) \cap Range(results) = {}


(***************************************************************************)
(* Claims about the node-level frustum test (SpecOctree).                  *)
(***************************************************************************)
\* The eight corners of the node's box.
Corners(node) ==
    {<<x, y, z>> : x \in {node.min_bound_[1], node.max_bound_[1]},
                   y \in {node.min_bound_[2], node.max_bound_[2]},
                   z \in {node.min_bound_[3], node.max_bound_[3]}}

\* Positions in the node's closed box: its corners, its centre and the points
\* of the cloud kept in it.
Probes(node) ==
    Corners(node) \cup {getCenter(node)}
        \cup {Position(points_, node.point_indices_[j]) : j \in DOMAIN node.point_indices_}

\* The position is on the non-negative side of each of the six planes.
PassesSixPlanes(pos, frustum) ==
    \A j \in 1..6 :
        frustum[j][1] * pos[1] + frustum[j][2] * pos[2] + frustum[j][3] * pos[3]
            + frustum[j][4] >= 0

\* The whole box of the node is on the negative side of plane j: a linear
\* function on a box is greatest at a corner.
BoxBehindPlane(node, plane) ==
    \A c \in Corners(node) :
        plane[1] * c[1] + plane[2] * c[2] + plane[3] * c[3] + plane[4] < 0

\* C25: isNodeInFrustum rejects a node only if one of the six planes has the
\* node's whole box on its negative side, so it never rejects a box that
\* holds a position passing all six plane tests.
C25_NodeTestConservative ==
    (o_pc = "queried" /\ query.kind \in {"frustum", "lod"} /\ built # <<>>) =>
        \A n \in DOMAIN nodes :
            ~isNodeInFrustum(nodes[n], query.frustum) =>
                /\ \E j \in 1..6 : BoxBehindPlane(nodes[n], query.frustum[j])
                /\ \A pos \in Probes(nodes[n]) : ~PassesSixPlanes(pos, query.frustum)

\* A frustum query on a subdivided tree where the node test has rejected a
\* node that holds points and has accepted a node with a corner behind a
\* plane.
C25_Witness ==
    /\ o_pc = "queried"
    /\ query.kind = "frustum"
    /\ built # <<>>
    /\ Subdivided
    /\ \E n \in DOMAIN nodes :
          /\ ~isNodeInFrustum(nodes[n], query.frustum)
          /\ nodes[n].point_indices_ # <<>>
    /\ \E n \in DOMAIN nodes :
          /\ isNodeInFrustum(nodes[n], query.frustum)
          /\ \E c \in Corners(nodes[n]) : ~PassesSixPlanes(c, query.frustum)
          /\ \E c \in Corners(nodes[n]) : PassesSixPlanes(c, query.frustum)


(***************************************************************************)
(* Claims about calls made at the same time (SpecReaders).                 *)
(***************************************************************************)
\* What the call q returns when it is the only one running, on the tree and
\* the cloud as they are.
Alone(q) ==
    CASE q.kind = "getMaxDepth" -> getMaxDepth
      [] q.kind = "getNodeCount" -> getNodeCount
      [] q.kind = "getLeafCount" -> getLeafCount
      [] q.kind = "box" -> queryBox(root_, nodes, points_, q.min_bound, q.max_bound)
      [] q.kind = "radius" -> queryRadius(root_, nodes, points_, q.center, q.radius)
      [] q.kind = "frustum" -> queryFrustum(root_, nodes, points_, q.frustum)
      [] q.kind = "lod" ->
           queryLOD(root_, nodes, q.view_position, q.frustum, q.base_distance,
                    q.undefined_cast)

\* What the call of reader r returns, once it is done.
ReturnedTo(r) ==
    CASE r_query[r].kind = "getMaxDepth" -> r_results[r][3]
      [] r_query[r].kind = "getNodeCount" -> r_results[r][1]
      [] r_query[r].kind = "getLeafCount" -> r_results[r][2]
      [] OTHER -> r_results[r]

\* C26: a step of a query or of a statistics call changes neither the tree,
\* nor any index list, nor the cloud; and a call that ran while others were
\* running returns what it returns alone.
C26_ReadersDoNotInterfere ==
    [][r_pc' # r_pc =>
          /\ UNCHANGED <<root_, nodes, points_, min_bound_, max_bound_>>
          /\ \A r \in Readers :
                (r_pc[r] # "done" /\ r_pc'[r] = "done") =>
                    ReturnedTo(r)' = Alone(r_query[r])']_vars

\* Two readers are both part-way through the root's children, one in a box
\* query and one in an LOD query, each with indices gathered.
C26_Witness ==
    /\ \A r \in Readers : r_pc[r] = "children" /\ r_i[r] \in 1..7
    /\ r_query[1].kind = "box"
    /\ r_query[2].kind = "lod"
    /\ r_results[1] # <<>>
    /\ r_results[2] # <<>>


(***************************************************************************)
(* Claims about build() on a cloud that was emptied (SpecHistory).         *)
(***************************************************************************)
\* A build() call made on an empty cloud returns in the step.
EmptyBuildStep == Len(built') = Len(built) + 1 /\ points_ = <<>>

\* C24: whatever came before, a build() call made while the cloud is empty
\* leaves the Octree without a root, so that the queries that follow return
\* nothing; also after build() over points, clear() and build().
C24_EmptyBuildNoRoot ==
    [][EmptyBuildStep =>
          /\ root_' = Null
          /\ \A view_position \in ViewPositions, frustum \in LODFrustums :
                queryLOD(root_, nodes, view_position, frustum, 10 * Unit, 0)' = <<>>]_vars

\* A first build() on a cloud that is empty: no root, as C24 says.
C24_FirstBuildEmpty ==
    [][(EmptyBuildStep /\ built = <<>>) => root_' = Null]_vars


(***************************************************************************)
(* Claims about translateCentroid and scale (SpecCloud).                   *)
(***************************************************************************)
RECURSIVE SumCoord(_, _)
\* The sum of coordinate j over the positions pts.
SumCoord(pts, j) ==
    IF pts = <<>> THEN 0 ELSE pts[1][j] + SumCoord(Tail(pts), j)

\* The mean of the positions pts is c: n * c = the sum, on every axis.
MeanIs(pts, c) == \A j \in 1..3 : Len(pts) * c[j] = SumCoord(pts, j)

\* After the step every point has moved by the same vector.
CommonShift ==
    /\ Len(points_') = Len(points_)
    /\ \A k \in DOMAIN points_, j \in 1..3 :
          points_'[k][j] - points_[k][j] = points_'[1][j] - points_[1][j]

\* After the step each position p has become c + factor * (p - c), c the mean
\* of the positions before (all terms times the number of points).
ScaledAboutMean(factor) ==
    /\ Len(points_') = Len(points_)
    /\ \A k \in DOMAIN points_, j \in 1..3 :
          Len(points_) * points_'[k][j] =
              SumCoord(points_, j)
                + factor * (Len(points_) * points_[k][j] - SumCoord(points_, j))

\* C30: on a cloud that is not empty, translateCentroid(target) moves every
\* point by one vector and leaves the mean of the positions at target, and
\* scale(f) takes each position p to c + f * (p - c), c the mean of the
\* positions.
C30_CentroidIsMean ==
    [][points_ # <<>> =>
          /\ \A target \in Targets :
                CallTranslateCentroid(target) =>
                    (CommonShift /\ MeanIs(points_', target))
          /\ \A factor \in Factors :
                CallScale(factor) => ScaledAboutMean(factor)]_vars

\* C30 with the centre of the bounding box in the place of the mean, where
\* the bounds are those of the points: what the code does.
C30_AboutBoxCenter ==
    [][(points_ # <<>> /\ C17_BoundsArePointsExtent) =>
          /\ \A target \in Targets :
                CallTranslateCentroid(target) =>
                    /\ CommonShift
                    /\ \A j \in 1..3 :
                          (MinCoord(j) + MaxCoord(j))' \div 2 = target[j]
          /\ \A factor \in Factors :
                CallScale(factor) =>
                    \A k \in DOMAIN points_, j \in 1..3 :
                        points_'[k][j] =
                            (MinCoord(j) + MaxCoord(j)) \div 2
                              + factor * (points_[k][j] - (MinCoord(j) + MaxCoord(j)) \div 2)]_vars

====
